---------------------------- MODULE Spec2Model ----------------------------
(***************************************************************************)
(* A model of lazycommit: the diff partitioner (src/utils/git.ts), the     *)
(* message synthesis (src/utils/groq.ts) and the commit command            *)
(* (src/commands/lazycommit.ts).  Text is modelled by TLA+ strings, which  *)
(* TLC treats as sequences of characters (Len, \o, SubSeq).                *)
(***************************************************************************)
EXTENDS Integers, Sequences, FiniteSets, TLC

VARIABLES
    \* ---- diff partitioner (git.ts) ----
    diff,        \* the diff text handed to chunkDiff / splitDiffByFile
    maxTokens,   \* the token budget
    chunks,      \* result of chunkDiff(diff, maxTokens)
    parts,       \* result of splitDiffByFile(diff)
    ppc,         \* "idle" | "input" | "chunked" | "split"
    \* ---- change-set grouper (the multi-commit command) ----
    files,       \* the file list handed to groupFiles
    groups,      \* the CommitGroups
    gpc,         \* "idle" | "input" | "grouped" | "split"
    \* ---- one logical backend request (createChatCompletion) ----
    chatN,       \* n, the number of completions asked for
    calls,       \* the physical calls, in call order
    chatOutcome, \* "idle" | "init" | "pending" | "returned" | "thrown"
    chatResult,  \* the choices returned
    chatError,   \* the error thrown
    \* ---- generateCommitMessageFromChunks ----
    chunkSize,      \* the chunk budget
    completions,    \* the number of candidates asked for
    maxLength,      \* the configured maximum length of a message
    chunkIndex,     \* i + 1 of the loop over the chunks
    chunkMessages,  \* the per-chunk messages collected so far
    requests,       \* the logical backend requests issued so far
    spc,            \* "idle" | "start" | "single" | "chunk" | "fallback"
                    \* | "combine" | "returned" | "thrown"
    result,         \* the candidates returned
    thrown,         \* the error thrown
    \* ---- the commit command and the repository it acts on ----
    stageAll,       \* the --all flag
    splitCommits,   \* the --split flag
    largeChange,    \* isLargeDiff || hasLargeIndividualFile
    worktree,       \* files changed in the work tree and not staged
    index,          \* the staged set
    startIndex,     \* the staged set when the run started
    history,        \* the commits created since the run started
    groupIndex,     \* i + 1 of the loop over the groups
    confirmed,      \* the answer to the prompt that asks whether to proceed
    cliMessages,    \* messages, the candidates of the single commit workflow
    cliMessage,     \* message, the one chosen in the single commit workflow
    cpc,            \* position of the command
    cliError,       \* the message of the error that ended the run
    \* ---- the pure functions, applied to one input ----
    path,           \* the path handed to classifyFile
    pathMeta,       \* classifyFile(path)
    reasoningText,  \* the text handed to deriveMessageFromReasoning
    derivedMessage, \* the message derived from it, Undefined for null
    choiceList,     \* completion.choices handed to generateCommitMessage
    candidates,     \* the candidates generateCommitMessage returns for them
    fpc,            \* "idle" | "input" | "done"
    rawMessage,       \* the text handed to sanitizeMessage
    sanitizedMessage, \* sanitizeMessage(rawMessage)
    cutMessage,       \* the sanitized text after the cut at maxLength
    fileStats,        \* summary.fileStats handed to buildCompactSummary
    maxFiles,         \* the maxFiles argument of buildCompactSummary
    summaryText       \* the text buildCompactSummary returns, Undefined for null

varsPart == <<diff, maxTokens, chunks, parts, ppc>>
varsGroup == <<files, groups, gpc>>

varsChat == <<chatN, calls, chatOutcome, chatResult, chatError>>

varsSynth == <<chunkSize, completions, maxLength, chunkIndex, chunkMessages, requests,
              spc, result, thrown>>

varsCli == <<stageAll, splitCommits, largeChange, worktree, index, startIndex, history,
            groupIndex, confirmed, cliMessages, cliMessage, cpc, cliError>>

varsPure ==
    <<path, pathMeta, reasoningText, derivedMessage, choiceList, candidates, fpc>>

varsPost == <<rawMessage, sanitizedMessage, cutMessage, fileStats, maxFiles, summaryText>>

vars == <<varsPart, varsGroup, varsChat, varsSynth, varsCli, varsPure, varsPost>>

IdlePart ==
    diff = "" /\ maxTokens = 0 /\ chunks = <<>> /\ parts = <<>> /\ ppc = "idle"
IdleGroup ==
    files = <<>> /\ groups = <<>> /\ gpc = "idle"
IdleChat ==
    /\ chatN = 0 /\ calls = <<>> /\ chatOutcome = "idle" /\ chatResult = <<>>
    /\ chatError = <<>>
IdleSynth ==
    /\ chunkSize = 0 /\ completions = 0 /\ maxLength = 0 /\ chunkIndex = 0
    /\ chunkMessages = <<>> /\ requests = <<>> /\ spc = "idle" /\ result = <<>>
    /\ thrown = <<>>

IdleCli ==
    /\ stageAll = FALSE /\ splitCommits = FALSE /\ largeChange = FALSE
    /\ worktree = {} /\ index = {} /\ startIndex = {} /\ history = <<>>
    /\ groupIndex = 0 /\ confirmed = FALSE /\ cliMessages = <<>> /\ cliMessage = ""
    /\ cpc = "idle" /\ cliError = ""

IdlePure ==
    /\ path = "" /\ pathMeta = <<>> /\ reasoningText = "" /\ derivedMessage = ""
    /\ choiceList = <<>> /\ candidates = <<>> /\ fpc = "idle"

IdlePost ==
    /\ rawMessage = "" /\ sanitizedMessage = "" /\ cutMessage = ""
    /\ fileStats = <<>> /\ maxFiles = 0 /\ summaryText = ""

(***************************************************************************)
(* Bounds of the model                                                     *)
(***************************************************************************)
MaxLines == 4        \* lines in a diff handed to the partitioner
MaxBudget == 3       \* largest token budget tried by the partitioner
MaxFiles == 5        \* files in a list handed to the grouper
MaxCompletions == 3  \* largest number of completions asked for in one request
MaxSynthLines == 2       \* lines in a diff handed to the synthesis
MaxSynthCompletions == 2 \* largest number of candidates asked of the synthesis
SmallChunkSize == 5      \* a chunk budget below one file of the synthesis diffs
LargeChunkSize == 12     \* a chunk budget above the synthesis diffs of two files
ShortMaxLength == 4      \* a maximum length shorter than the derived message
DefaultMaxLength == 50   \* max-length as configured by default
MaxDedupChoices == 3     \* choices of an answer whose contents repeat
MaxStatFiles == 3        \* files whose statistics the summary is built from
MaxFilesShown == 3       \* largest maxFiles handed to buildCompactSummary
MaxCliFiles == 6     \* paths of the repository the command runs in

(***************************************************************************)
(* String helpers: the JavaScript String methods the code uses             *)
(***************************************************************************)
charAt(s, i) == SubSeq(s, i, i)

Whitespace == {" ", "\t", "\n", "\r", "\f"}

\* String.prototype.trim
RECURSIVE trimStart(_)
trimStart(s) ==
    IF Len(s) > 0 /\ charAt(s, 1) \in Whitespace THEN trimStart(Tail(s)) ELSE s

RECURSIVE trimEnd(_)
trimEnd(s) ==
    IF Len(s) > 0 /\ charAt(s, Len(s)) \in Whitespace
    THEN trimEnd(SubSeq(s, 1, Len(s) - 1))
    ELSE s

trim(s) == trimEnd(trimStart(s))

\* String.prototype.startsWith / endsWith / includes
startsWith(s, p) == Len(s) >= Len(p) /\ SubSeq(s, 1, Len(p)) = p

endsWith(s, p) == Len(s) >= Len(p) /\ SubSeq(s, Len(s) - Len(p) + 1, Len(s)) = p

includes(s, p) ==
    \E i \in 1..(Len(s) - Len(p) + 1) : SubSeq(s, i, i + Len(p) - 1) = p

\* String.prototype.indexOf, 1-based; 0 when p does not occur
indexOf(s, p) ==
    IF includes(s, p)
    THEN CHOOSE i \in 1..(Len(s) - Len(p) + 1) :
            /\ SubSeq(s, i, i + Len(p) - 1) = p
            /\ \A j \in 1..(i - 1) : SubSeq(s, j, j + Len(p) - 1) # p
    ELSE 0

\* s.split(sep) for a non-empty separator
RECURSIVE split(_, _)
split(s, sep) ==
    LET i == indexOf(s, sep) IN
    IF i = 0 THEN <<s>>
    ELSE <<SubSeq(s, 1, i - 1)>> \o split(SubSeq(s, i + Len(sep), Len(s)), sep)

\* array.join(sep)
RECURSIVE join(_, _)
join(arr, sep) ==
    IF arr = <<>> THEN ""
    ELSE IF Len(arr) = 1 THEN arr[1]
    ELSE arr[1] \o sep \o join(Tail(arr), sep)

\* array.filter / array.map over sequences
RECURSIVE SelectNonEmpty(_)
SelectNonEmpty(arr) ==
    IF arr = <<>> THEN <<>>
    ELSE IF arr[1] = "" THEN SelectNonEmpty(Tail(arr))
    ELSE <<arr[1]>> \o SelectNonEmpty(Tail(arr))

Max(a, b) == IF a >= b THEN a ELSE b
Min(a, b) == IF a <= b THEN a ELSE b

(***************************************************************************)
(* Diff partitioner: src/utils/git.ts                                      *)
(***************************************************************************)
\* Math.ceil(text.length / 4)
estimateTokenCount(text) == (Len(text) + 3) \div 4

\* A loop body that forgets the line which opens a new chunk.
ChunkStepDropsLine(acc, line, budget) ==
    LET lineTokens == estimateTokenCount(line) IN
    IF acc.currentTokens + lineTokens > budget /\ Len(acc.currentChunk) > 0
    THEN [chunks |-> Append(acc.chunks, trim(acc.currentChunk)),
          currentChunk |-> "",
          currentTokens |-> 0]
    ELSE [chunks |-> acc.chunks,
          currentChunk |-> acc.currentChunk \o line \o "\n",
          currentTokens |-> acc.currentTokens + lineTokens]

\* The body of chunkDiff's loop over the lines
ChunkStep(acc, line, budget) ==
    LET lineTokens == estimateTokenCount(line) IN
    IF acc.currentTokens + lineTokens > budget /\ Len(acc.currentChunk) > 0
    THEN [chunks |-> Append(acc.chunks, trim(acc.currentChunk)),
          currentChunk |-> line \o "\n",
          currentTokens |-> lineTokens]
    ELSE [chunks |-> acc.chunks,
          currentChunk |-> acc.currentChunk \o line \o "\n",
          currentTokens |-> acc.currentTokens + lineTokens]

RECURSIVE ChunkLoop(_, _, _)
ChunkLoop(acc, lines, budget) ==
    IF lines = <<>> THEN acc
    ELSE ChunkLoop(ChunkStep(acc, Head(lines), budget), Tail(lines), budget)

chunkDiff(text, budget) ==
    IF estimateTokenCount(text) <= budget THEN <<text>>
    ELSE LET acc == ChunkLoop([chunks |-> <<>>, currentChunk |-> "", currentTokens |-> 0],
                              split(text, "\n"), budget)
         IN IF Len(trim(acc.currentChunk)) > 0
            THEN Append(acc.chunks, trim(acc.currentChunk))
            ELSE acc.chunks

FileMarker == "diff --git "

\* A loop body that opens the new block without its marker line.
SplitStepDropsMarker(acc, line) ==
    IF startsWith(line, FileMarker)
    THEN [parts |-> IF Len(trim(acc.current)) > 0
                    THEN Append(acc.parts, trim(acc.current))
                    ELSE acc.parts,
          current |-> ""]
    ELSE [parts |-> acc.parts, current |-> acc.current \o line \o "\n"]

\* The body of splitDiffByFile's loop over the lines
SplitStep(acc, line) ==
    IF startsWith(line, FileMarker)
    THEN [parts |-> IF Len(trim(acc.current)) > 0
                    THEN Append(acc.parts, trim(acc.current))
                    ELSE acc.parts,
          current |-> line \o "\n"]
    ELSE [parts |-> acc.parts, current |-> acc.current \o line \o "\n"]

RECURSIVE SplitLoop(_, _)
SplitLoop(acc, lines) ==
    IF lines = <<>> THEN acc
    ELSE SplitLoop(SplitStep(acc, Head(lines)), Tail(lines))

splitDiffByFile(text) ==
    LET acc == SplitLoop([parts |-> <<>>, current |-> ""], split(text, "\n"))
    IN IF Len(trim(acc.current)) > 0
       THEN Append(acc.parts, trim(acc.current))
       ELSE acc.parts

(***************************************************************************)
(* The partitioner applied to bounded diffs                                *)
(***************************************************************************)
\* Lines of a unified diff: a blank context line, a context line, a short
\* and a long added line, a file-boundary marker.
DiffLines == {" ", " a", "+bcd", "+efghijkl", "diff --git a/x b/x"}

LineSeqs(n) == UNION {[1..k -> DiffLines] : k \in 1..n}

Diffs == {join(ls, "\n") : ls \in LineSeqs(MaxLines)}

Budgets == 1..MaxBudget

InitPart ==
    /\ IdleGroup /\ IdleChat /\ IdleSynth /\ IdleCli /\ IdlePure /\ IdlePost
    /\ diff \in Diffs
    /\ maxTokens \in Budgets
    /\ chunks = <<>>
    /\ parts = <<>>
    /\ ppc = "input"

CallChunkDiff ==
    /\ ppc = "input"
    /\ chunks' = chunkDiff(diff, maxTokens)
    /\ ppc' = "chunked"
    /\ UNCHANGED <<diff, maxTokens, parts, varsGroup, varsChat, varsSynth, varsCli, varsPure, varsPost>>

CallSplitDiffByFile ==
    /\ ppc = "chunked"
    /\ parts' = splitDiffByFile(diff)
    /\ ppc' = "split"
    /\ UNCHANGED <<diff, maxTokens, chunks, varsGroup, varsChat, varsSynth, varsCli, varsPure, varsPost>>

NextPart == CallChunkDiff \/ CallSplitDiffByFile

SpecPart == InitPart /\ [][NextPart]_vars

(***************************************************************************)
(* Claims about the partitioner                                            *)
(***************************************************************************)
Chunked == ppc \in {"chunked", "split"}

\* The lines of a text that hold more than whitespace, each trimmed
RECURSIVE TrimAll(_)
TrimAll(arr) ==
    IF arr = <<>> THEN <<>> ELSE <<trim(arr[1])>> \o TrimAll(Tail(arr))

ContentLines(text) == SelectNonEmpty(TrimAll(split(text, "\n")))

C2_ChunkWithinBudget ==
    Chunked =>
        \A i \in 1..Len(chunks) :
            \/ estimateTokenCount(chunks[i]) <= maxTokens
            \/ ~includes(chunks[i], "\n")

\* C28: for every diff that contains a non-whitespace character and every
\* budget, no chunk returned by chunkDiff is an empty string, so that no
\* per-chunk request is issued with an empty chunk text.
C28_NoEmptyChunk ==
    (Chunked /\ trim(diff) # "") =>
        \A i \in 1..Len(chunks) : chunks[i] # ""

\* The positions of the file-boundary marker lines and of the lines that hold
\* more than whitespace
MarkerPositions(ls) == {i \in 1..Len(ls) : startsWith(ls[i], FileMarker)}

NonBlankPositions(ls) == {i \in 1..Len(ls) : trim(ls[i]) # ""}

FirstNonBlankIsMarker(ls) ==
    \E i \in MarkerPositions(ls) : \A j \in 1..(i - 1) : j \notin NonBlankPositions(ls)

\* The k-th smallest element of a set of positions
NthOf(S, k) == CHOOSE p \in S : Cardinality({q \in S : q <= p}) = k

\* The lines of the segments, taken in order
RECURSIVE LinesOfAll(_)
LinesOfAll(segs) ==
    IF segs = <<>> THEN <<>> ELSE split(Head(segs), "\n") \o LinesOfAll(Tail(segs))

\* The lines of ls from the k-th marker line up to the line before the next
\* marker line, or up to the last line
BlockEnd(ls, M, k) == IF k < Cardinality(M) THEN NthOf(M, k + 1) - 1 ELSE Len(ls)

BlockLines(ls, M, k) == SubSeq(ls, NthOf(M, k), BlockEnd(ls, M, k))

SegmentsStartAtMarkers(ls, M) ==
    /\ Len(parts) = Cardinality(M)
    /\ \A k \in 1..Len(parts) : startsWith(parts[k], ls[NthOf(M, k)])

\* C17 (as stated): for a diff whose first non-blank line is a marker line,
\* splitDiffByFile returns as many segments as there are marker lines, segment
\* i starts with the i-th marker line, and the lines of the segments taken in
\* order are the lines of the diff; a diff with no marker and some non-blank
\* content yields exactly one segment.
C17_SegmentsKeepEveryLine ==
    ppc = "split" =>
        \A ls \in {split(diff, "\n")} :
            /\ FirstNonBlankIsMarker(ls) =>
                  /\ SegmentsStartAtMarkers(ls, MarkerPositions(ls))
                  /\ LinesOfAll(parts) = ls
            /\ (MarkerPositions(ls) = {} /\ NonBlankPositions(ls) # {}) =>
                  Len(parts) = 1

\* C17 (amended): for a diff whose first non-blank line is a marker line,
\* there are as many segments as marker lines, segment i starts with the i-th
\* marker line and is the text from that line up to the line before the next
\* marker line, trimmed: its lines are those lines of the diff in order,
\* without the blank lines at its end and the whitespace at its two ends. A
\* diff with no marker and some non-blank content yields the one segment
\* trim(diff).
C17_SegmentsAreTrimmedBlocks ==
    ppc = "split" =>
        \A ls \in {split(diff, "\n")} :
            /\ FirstNonBlankIsMarker(ls) =>
                  /\ SegmentsStartAtMarkers(ls, MarkerPositions(ls))
                  /\ \A k \in 1..Len(parts) :
                        parts[k] = trim(join(BlockLines(ls, MarkerPositions(ls), k), "\n"))
            /\ (MarkerPositions(ls) = {} /\ NonBlankPositions(ls) # {}) =>
                  parts = <<trim(diff)>>

\* C17 witness: a diff of two files whose first file ends with a blank
\* context line, which the first segment has lost.
C17_Witness ==
    /\ ppc = "split"
    /\ 1 \in MarkerPositions(split(diff, "\n"))
    /\ \E i \in MarkerPositions(split(diff, "\n")) :
          i > 2 /\ (i - 1) \notin NonBlankPositions(split(diff, "\n"))
    /\ Len(parts) = 2
    /\ LinesOfAll(parts) # split(diff, "\n")


(***************************************************************************)
(* File classifier and change-set grouper: the multi-commit command        *)
(***************************************************************************)
UpperCase == "ABCDEFGHIJKLMNOPQRSTUVWXYZ"
LowerCase == "abcdefghijklmnopqrstuvwxyz"

UpperChars == {charAt(UpperCase, i) : i \in 1..Len(UpperCase)}

toLowerChar(c) ==
    IF c \in UpperChars THEN charAt(LowerCase, indexOf(UpperCase, c)) ELSE c

\* String.prototype.toLowerCase
RECURSIVE toLowerCase(_)
toLowerCase(s) ==
    IF s = "" THEN "" ELSE toLowerChar(Head(s)) \o toLowerCase(Tail(s))

\* JavaScript's undefined, and the values that `||` and `?:` take as false
Undefined == "/undefined/"
Falsy(x) == x = Undefined \/ x = ""
OrElse(x, y) == IF Falsy(x) THEN y ELSE x

\* lower.match(/\.(test|spec)\.[jt]sx?$/)
MatchesTestSuffix(lower) ==
    \E w \in {"test", "spec"} : \E e \in {"js", "jsx", "ts", "tsx"} :
        endsWith(lower, "." \o w \o "." \o e)

IsDocsFile(lower) ==
    \/ endsWith(lower, ".md") \/ startsWith(lower, "docs/") \/ includes(lower, "/docs/")
    \/ includes(lower, "readme") \/ includes(lower, "changelog")
    \/ includes(lower, "license")
    \/ endsWith(lower, ".rst") \/ endsWith(lower, ".adoc")

IsCiFile(lower) ==
    \/ startsWith(lower, ".github/") \/ startsWith(lower, ".gitlab/")
    \/ /\ (endsWith(lower, ".yml") \/ endsWith(lower, ".yaml"))
       /\ \/ includes(lower, "workflow") \/ includes(lower, "pipeline")
          \/ includes(lower, "action") \/ includes(lower, "ci")
          \/ includes(lower, "deploy")

IsBuildFile(lower) ==
    \/ endsWith(lower, "package.json") \/ endsWith(lower, "pnpm-lock.yaml")
    \/ endsWith(lower, "yarn.lock") \/ endsWith(lower, "package-lock.json")
    \/ endsWith(lower, "tsconfig.json") \/ endsWith(lower, "jsconfig.json")
    \/ endsWith(lower, "vite.config.js") \/ endsWith(lower, "webpack.config.js")
    \/ endsWith(lower, "rollup.config.js") \/ endsWith(lower, "babel.config.js")
    \/ endsWith(lower, ".config.js") \/ endsWith(lower, ".config.ts")
    \/ endsWith(lower, "dockerfile") \/ endsWith(lower, "docker-compose.yml")
    \/ endsWith(lower, "makefile") \/ endsWith(lower, ".mk")
    \/ includes(lower, "webpack") \/ includes(lower, "rollup")
    \/ includes(lower, "vite") \/ includes(lower, "babel")
    \/ startsWith(lower, "config/")

IsTestFile(lower) ==
    \/ includes(lower, "/test/") \/ includes(lower, "__tests__")
    \/ includes(lower, "/tests/")
    \/ MatchesTestSuffix(lower) \/ includes(lower, ".test.")
    \/ includes(lower, ".spec.") \/ startsWith(lower, "test/")
    \/ startsWith(lower, "tests/")
    \/ includes(lower, "cypress/") \/ includes(lower, "jest/")
    \/ includes(lower, "vitest/")

IsAnalyticsFile(lower) ==
    includes(lower, "analytics") \/ includes(lower, "metrics") \/ includes(lower, "tracking")

IsAuthFile(lower) ==
    \/ includes(lower, "auth") \/ includes(lower, "login") \/ includes(lower, "security")
    \/ includes(lower, "permission") \/ includes(lower, "role")

IsApiFile(lower) ==
    \/ startsWith(lower, "app/api/") \/ includes(lower, "/api/")
    \/ includes(lower, "routes/")
    \/ includes(lower, "endpoint") \/ includes(lower, "handler")

IsDbFile(lower) ==
    \/ includes(lower, "database") \/ includes(lower, "/db/") \/ includes(lower, "migration")
    \/ includes(lower, "schema") \/ includes(lower, "model") \/ includes(lower, "entity")
    \/ endsWith(lower, ".sql") \/ includes(lower, "prisma/")

IsUiFile(lower) ==
    \/ includes(lower, "component") \/ includes(lower, "ui/") \/ includes(lower, "style")
    \/ endsWith(lower, ".css") \/ endsWith(lower, ".scss") \/ endsWith(lower, ".less")
    \/ endsWith(lower, ".styl") \/ includes(lower, "theme")

IsUtilsFile(lower) ==
    \/ includes(lower, "util") \/ includes(lower, "helper") \/ includes(lower, "lib/")
    \/ includes(lower, "common/") \/ includes(lower, "shared/")

IsAppFile(lower) ==
    \/ startsWith(lower, "app/") \/ startsWith(lower, "src/app/") \/ includes(lower, "page")
    \/ includes(lower, "layout") \/ includes(lower, "route")

\* A classifier that tries the domain keyword and source-root rules before
\* the test rule.
classifyFileTestLast(file) ==
    LET lower == toLowerCase(file) IN
    IF IsDocsFile(lower) THEN [type |-> "docs", scope |-> Undefined]
    ELSE IF IsCiFile(lower) THEN [type |-> "ci", scope |-> Undefined]
    ELSE IF IsBuildFile(lower) THEN [type |-> "build", scope |-> Undefined]
    ELSE IF IsAnalyticsFile(lower) THEN [type |-> "feat", scope |-> "analytics"]
    ELSE IF IsAuthFile(lower) THEN [type |-> "feat", scope |-> "auth"]
    ELSE IF IsApiFile(lower) THEN [type |-> "feat", scope |-> "api"]
    ELSE IF IsDbFile(lower) THEN [type |-> "feat", scope |-> "db"]
    ELSE IF IsUiFile(lower) THEN [type |-> "feat", scope |-> "ui"]
    ELSE IF IsUtilsFile(lower) THEN [type |-> "refactor", scope |-> "utils"]
    ELSE IF IsAppFile(lower) THEN [type |-> "feat", scope |-> "app"]
    ELSE IF startsWith(lower, "src/") THEN [type |-> "feat", scope |-> "core"]
    ELSE IF IsTestFile(lower) THEN [type |-> "test", scope |-> Undefined]
    ELSE [type |-> "chore", scope |-> Undefined]

classifyFile(file) ==
    LET lower == toLowerCase(file) IN
    IF IsDocsFile(lower) THEN [type |-> "docs", scope |-> Undefined]
    ELSE IF IsCiFile(lower) THEN [type |-> "ci", scope |-> Undefined]
    ELSE IF IsBuildFile(lower) THEN [type |-> "build", scope |-> Undefined]
    ELSE IF IsTestFile(lower) THEN [type |-> "test", scope |-> Undefined]
    ELSE IF IsAnalyticsFile(lower) THEN [type |-> "feat", scope |-> "analytics"]
    ELSE IF IsAuthFile(lower) THEN [type |-> "feat", scope |-> "auth"]
    ELSE IF IsApiFile(lower) THEN [type |-> "feat", scope |-> "api"]
    ELSE IF IsDbFile(lower) THEN [type |-> "feat", scope |-> "db"]
    ELSE IF IsUiFile(lower) THEN [type |-> "feat", scope |-> "ui"]
    ELSE IF IsUtilsFile(lower) THEN [type |-> "refactor", scope |-> "utils"]
    ELSE IF IsAppFile(lower) THEN [type |-> "feat", scope |-> "app"]
    ELSE IF startsWith(lower, "src/") THEN [type |-> "feat", scope |-> "core"]
    ELSE [type |-> "chore", scope |-> Undefined]

topLevelScope(file) ==
    LET ps == split(file, "/") IN
    IF Len(ps) > 1 THEN ps[1] ELSE Undefined

getSecondLevelDir(file) ==
    LET ps == split(file, "/") IN
    IF Len(ps) >= 4 /\ ps[1] = "app" /\ ps[2] = "api" THEN ps[3]
    ELSE IF Len(ps) >= 2 THEN ps[2]
    ELSE Undefined

\* A bucket insertion that loses a file whose bucket already exists.
GroupStepOverwrites(buckets, f) ==
    LET meta == classifyFile(f)
        inferredScope == OrElse(meta.scope, topLevelScope(f))
        key == meta.type \o ":" \o OrElse(inferredScope, "general")
    IN  IF \E i \in 1..Len(buckets) : buckets[i].key = key
        THEN LET i == CHOOSE i \in 1..Len(buckets) : buckets[i].key = key
             IN [buckets EXCEPT ![i].files = <<f>>]
        ELSE Append(buckets, [key |-> key,
                              meta |-> [type |-> meta.type, scope |-> inferredScope],
                              files |-> <<f>>])

\* The body of groupFiles' loop over the files: buckets is the Map, in
\* insertion order
GroupStep(buckets, f) ==
    LET meta == classifyFile(f)
        inferredScope == OrElse(meta.scope, topLevelScope(f))
        key == meta.type \o ":" \o OrElse(inferredScope, "general")
    IN  IF \E i \in 1..Len(buckets) : buckets[i].key = key
        THEN LET i == CHOOSE i \in 1..Len(buckets) : buckets[i].key = key
             IN [buckets EXCEPT ![i].files = Append(@, f)]
        ELSE Append(buckets, [key |-> key,
                              meta |-> [type |-> meta.type, scope |-> inferredScope],
                              files |-> <<f>>])

RECURSIVE GroupLoop(_, _)
GroupLoop(buckets, fs) ==
    IF fs = <<>> THEN buckets
    ELSE GroupLoop(GroupStep(buckets, Head(fs)), Tail(fs))

titleBase(type) ==
    IF type = "docs" THEN "update documentation"
    ELSE IF type = "ci" THEN "update CI workflows"
    ELSE IF type = "build" THEN "update build/configuration"
    ELSE IF type = "test" THEN "update tests"
    ELSE IF type = "feat" THEN "add or update features"
    ELSE IF type = "chore" THEN "maintenance updates"
    ELSE "update files"

BucketToCommit(b) ==
    [type |-> b.meta.type,
     scope |-> b.meta.scope,
     title |-> IF Falsy(b.meta.scope) THEN titleBase(b.meta.type)
               ELSE titleBase(b.meta.type) \o " in " \o b.meta.scope,
     files |-> b.files]

\* A priority table in which documentation and CI have changed places.
orderCiBeforeDocs(type) ==
    CASE type = "feat" -> 0 [] type = "fix" -> 1 [] type = "refactor" -> 2
      [] type = "perf" -> 3 [] type = "test" -> 4 [] type = "docs" -> 7
      [] type = "build" -> 6 [] type = "ci" -> 5 [] type = "chore" -> 8
      [] OTHER -> 99

\* order[type] ?? 99
order(type) ==
    CASE type = "feat" -> 0 [] type = "fix" -> 1 [] type = "refactor" -> 2
      [] type = "perf" -> 3 [] type = "test" -> 4 [] type = "docs" -> 5
      [] type = "build" -> 6 [] type = "ci" -> 7 [] type = "chore" -> 8
      [] OTHER -> 99

\* Array.prototype.sort with the comparator of groupFiles; the sort is stable
RECURSIVE InsertByOrder(_, _)
InsertByOrder(sorted, g) ==
    IF sorted = <<>> THEN <<g>>
    ELSE IF order(g.type) < order(Head(sorted).type) THEN <<g>> \o sorted
    ELSE <<Head(sorted)>> \o InsertByOrder(Tail(sorted), g)

RECURSIVE SortByOrder(_, _)
SortByOrder(sorted, rest) ==
    IF rest = <<>> THEN sorted
    ELSE SortByOrder(InsertByOrder(sorted, Head(rest)), Tail(rest))

groupFiles(fs) ==
    LET buckets == GroupLoop(<<>>, fs)
        commits == [i \in 1..Len(buckets) |-> BucketToCommit(buckets[i])]
    IN  SortByOrder(<<>>, commits)

DeepSplitThreshold == 5

\* The body of the deep split's loop: bySecond is the Map, in insertion order
SecondStep(bySecond, f) ==
    LET second == OrElse(getSecondLevelDir(f), "general") IN
    IF \E i \in 1..Len(bySecond) : bySecond[i].second = second
    THEN LET i == CHOOSE i \in 1..Len(bySecond) : bySecond[i].second = second
         IN [bySecond EXCEPT ![i].files = Append(@, f)]
    ELSE Append(bySecond, [second |-> second, files |-> <<f>>])

RECURSIVE SecondLoop(_, _)
SecondLoop(bySecond, fs) ==
    IF fs = <<>> THEN bySecond
    ELSE SecondLoop(SecondStep(bySecond, Head(fs)), Tail(fs))

\* A deep split that leaves a group of exactly the threshold alone.
deepSplitAboveThreshold(gs) ==
    IF Len(gs) = 1 /\ Len(gs[1].files) > DeepSplitThreshold
    THEN LET bySecond == SecondLoop(<<>>, gs[1].files) IN
         [i \in 1..Len(bySecond) |->
            [type |-> gs[1].type,
             scope |-> bySecond[i].second,
             title |-> "update files in " \o bySecond[i].second,
             files |-> bySecond[i].files]]
    ELSE gs

\* The deep split of a single large group by second-level directory
deepSplit(gs) ==
    IF Len(gs) = 1 /\ Len(gs[1].files) >= DeepSplitThreshold
    THEN LET bySecond == SecondLoop(<<>>, gs[1].files) IN
         [i \in 1..Len(bySecond) |->
            [type |-> gs[1].type,
             scope |-> bySecond[i].second,
             title |-> "update files in " \o bySecond[i].second,
             files |-> bySecond[i].files]]
    ELSE gs

(***************************************************************************)
(* The grouper applied to bounded file lists                               *)
(***************************************************************************)
Paths ==
    {"app/api/u/a.ts", "app/api/u/b.ts", "app/api/p/a.ts", "app/api/p/b.ts",
     "app/api/q.ts", "README.md", ".github/workflows/ci.yml", "src/x.ts"}

\* File lists as git prints them: no path twice
FileLists ==
    {fs \in UNION {[1..k -> Paths] : k \in 1..MaxFiles} :
        \A i, j \in 1..Len(fs) : i # j => fs[i] # fs[j]}

\* The changed paths of a second repository, in the path order in which git
\* lists the staged files: every category of the classifier, and files of
\* the api bucket with and without a second-level directory
GitPaths ==
    <<".github/workflows/ci.yml", "Makefile", "README.md", "app/api/general/a.ts",
      "app/api/general/b.ts", "app/api/general/c.ts", "app/api/u/a.ts", "endpoint.ts",
      "handler.ts", "lib/util.ts", "notes.txt", "src/x.test.ts", "src/x.ts">>

\* The paths of GitPaths at the positions S up to n, in order
RECURSIVE PathsAt(_, _)
PathsAt(S, n) ==
    IF n = 0 THEN <<>>
    ELSE IF n \in S THEN Append(PathsAt(S, n - 1), GitPaths[n])
    ELSE PathsAt(S, n - 1)

GitFileLists ==
    {PathsAt(S, Len(GitPaths)) :
        S \in {T \in SUBSET (1..Len(GitPaths)) : Cardinality(T) \in 1..MaxFiles}}

InitGroup ==
    /\ IdlePart /\ IdleChat /\ IdleSynth /\ IdleCli /\ IdlePure /\ IdlePost
    /\ files \in FileLists \cup GitFileLists
    /\ groups = <<>>
    /\ gpc = "input"

CallGroupFiles ==
    /\ gpc = "input"
    /\ groups' = groupFiles(files)
    /\ gpc' = "grouped"
    /\ UNCHANGED <<files, varsPart, varsChat, varsSynth, varsCli, varsPure, varsPost>>

DeepSplit ==
    /\ gpc = "grouped"
    /\ groups' = deepSplit(groups)
    /\ gpc' = "split"
    /\ UNCHANGED <<files, varsPart, varsChat, varsSynth, varsCli, varsPure, varsPost>>

NextGroup == CallGroupFiles \/ DeepSplit

SpecGroup == InitGroup /\ [][NextGroup]_vars

(***************************************************************************)
(* Claims about the grouper                                                *)
(***************************************************************************)
Grouped == gpc \in {"grouped", "split"}

\* How many times file f is listed in the groups gs
RECURSIVE Occurrences(_, _)
Occurrences(gs, f) ==
    IF gs = <<>> THEN 0
    ELSE Cardinality({i \in 1..Len(Head(gs).files) : Head(gs).files[i] = f})
         + Occurrences(Tail(gs), f)

FilesOf(gs) == UNION {{gs[i].files[j] : j \in 1..Len(gs[i].files)} : i \in 1..Len(gs)}

PartitionsFiles(gs, fs) ==
    /\ \A i \in 1..Len(gs) : Len(gs[i].files) > 0
    /\ FilesOf(gs) = {fs[i] : i \in 1..Len(fs)}
    /\ \A i \in 1..Len(fs) : Occurrences(gs, fs[i]) = 1

\* C3: the groups of groupFiles(F), and the groups that replace them after
\* the deep split, partition F: every group is non-empty and every file of F
\* is in exactly one group, none omitted and none duplicated.
C3_GroupsPartitionFiles ==
    Grouped => PartitionsFiles(groups, files)

\* C3 witness: the deep split replaced a single group of five files by
\* several groups.
C3_Witness ==
    /\ gpc = "split"
    /\ Len(files) >= DeepSplitThreshold
    /\ Len(groupFiles(files)) = 1
    /\ Len(groups) > 1

\* The deep split applies: one group that holds at least the threshold
SingleLargeGroup(fs) ==
    Len(groupFiles(fs)) = 1 /\ Len(fs) >= DeepSplitThreshold

\* The secondary path segments of the files, a file without one counting as
\* a value of its own
SecondarySegments(fs) == {getSecondLevelDir(fs[i]) : i \in 1..Len(fs)}

\* The keys under which the deep split buckets the files
SecondaryKeys(fs) == {OrElse(getSecondLevelDir(fs[i]), "general") : i \in 1..Len(fs)}

\* C14 (as stated): if groupFiles(F) yields exactly one group of at least 5
\* files and the files have at least 2 distinct secondary path segment values,
\* a file with no secondary segment counting as its own value, the group list
\* after the deep split has more than one group.
C14_DeepSplitByDistinctSegments ==
    (gpc = "split" /\ SingleLargeGroup(files)
        /\ Cardinality(SecondarySegments(files)) >= 2)
        => Len(groups) > 1

\* C14 (amended): a file with no secondary segment is bucketed under the
\* label "general", the same bucket as the files of a directory of that name.
\* If groupFiles(F) yields exactly one group of at least 5 files, the deep
\* split yields one group per distinct value among the secondary segments and
\* that label, so more than one group exactly when there are at least 2.
C14_DeepSplitByDistinctKeys ==
    (gpc = "split" /\ SingleLargeGroup(files)) =>
        /\ Len(groups) = Cardinality(SecondaryKeys(files))
        /\ Cardinality(SecondaryKeys(files)) >= 2 => Len(groups) > 1

\* C14 witness: a single group of five files, one of them without a
\* secondary segment, that the deep split replaced by several groups.
C14_Witness ==
    /\ gpc = "split"
    /\ SingleLargeGroup(files)
    /\ Undefined \in SecondarySegments(files)
    /\ Len(groups) > 1

\* The category priority order
CategoryPriority ==
    <<"feat", "fix", "refactor", "perf", "test", "docs", "build", "ci", "chore">>

Precedes(a, b) ==
    \E m, n \in 1..Len(CategoryPriority) :
        m < n /\ CategoryPriority[m] = a /\ CategoryPriority[n] = b

HasGroupOf(type) == \E i \in 1..Len(groups) : groups[i].type = type

\* C15: groupFiles(F) returns its groups in the category priority order
\* feat, fix, refactor, perf, test, docs, build, ci, chore: every group has one
\* of these categories and no group precedes a group of a higher-priority
\* category.
C15_GroupsInPriorityOrder ==
    gpc = "grouped" =>
        /\ \A i \in 1..Len(groups) :
              \E n \in 1..Len(CategoryPriority) : CategoryPriority[n] = groups[i].type
        /\ \A i, j \in 1..Len(groups) :
              i < j => ~Precedes(groups[j].type, groups[i].type)

\* C15 witness: a list that begins with a CI file and a documentation file
\* and goes on with a feature file, grouped as feature, documentation, CI.
C15_Witness ==
    /\ gpc = "grouped"
    /\ Len(files) >= 3
    /\ classifyFile(files[1]).type = "ci"
    /\ classifyFile(files[2]).type = "docs"
    /\ HasGroupOf("feat") /\ HasGroupOf("docs") /\ HasGroupOf("ci")
    /\ groups[1].type = "feat"
    /\ groups[Len(groups)].type = "ci"

(***************************************************************************)
(* The classifier applied to bounded paths                                 *)
(***************************************************************************)
PathDirs ==
    {"", "src/", "src/app/", "docs/", ".github/", "app/api/", "tests/", "lib/", "config/"}
PathNames == {"x", "auth", "README", "webpack", "schema", "page", "Style", "Makefile"}
PathExtensions == {"", ".ts", ".test.ts", ".spec.jsx", ".md", ".yml", ".css"}

ClassifyPaths ==
    {d \o n \o e : d \in PathDirs, n \in PathNames, e \in PathExtensions}

InitClassify ==
    /\ IdlePart /\ IdleGroup /\ IdleChat /\ IdleSynth /\ IdleCli
    /\ path \in ClassifyPaths
    /\ pathMeta = <<>>
    /\ reasoningText = "" /\ derivedMessage = "" /\ choiceList = <<>>
    /\ candidates = <<>>
    /\ fpc = "input"
    /\ IdlePost

CallClassifyFile ==
    /\ fpc = "input"
    /\ pathMeta' = classifyFile(path)
    /\ fpc' = "done"
    /\ UNCHANGED <<path, reasoningText, derivedMessage, choiceList, candidates,
                   varsPart, varsGroup, varsChat, varsSynth, varsCli, varsPost>>

NextClassify == CallClassifyFile

SpecClassify == InitClassify /\ [][NextClassify]_vars

(***************************************************************************)
(* Claims about the classifier                                             *)
(***************************************************************************)
\* The rules in the order of the claim: which of them the lower-cased path
\* matches, and the category each of them gives
RuleMatches(lower) ==
    <<IsDocsFile(lower), IsCiFile(lower), IsBuildFile(lower), IsTestFile(lower),
      IsAnalyticsFile(lower), IsAuthFile(lower), IsApiFile(lower), IsDbFile(lower),
      IsUiFile(lower), IsUtilsFile(lower), IsAppFile(lower), startsWith(lower, "src/")>>

RuleCategories ==
    <<"docs", "ci", "build", "test", "feat", "feat", "feat", "feat", "feat", "refactor",
      "feat", "feat">>

\* The category of the earliest rule matched, maintenance when none is
EarliestCategory(matches) ==
    IF \E n \in 1..Len(matches) : matches[n]
    THEN RuleCategories[CHOOSE n \in 1..Len(matches) :
                            matches[n] /\ \A m \in 1..(n - 1) : ~matches[m]]
    ELSE "chore"

\* C16: classifyFile is total and first-match-wins: every path gets the
\* category of the earliest rule it matches in the order documentation, CI,
\* build/config, test, domain keyword rules, source-root rule, and maintenance
\* when no rule matches; a path that matches a test naming pattern and no
\* documentation, CI or build pattern is classified test even when it lies
\* under a source root or contains a domain keyword.
C16_FirstMatchWins ==
    fpc = "done" /\ path # "" =>
        /\ pathMeta.type \in {"docs", "ci", "build", "test", "feat", "refactor", "chore"}
        /\ pathMeta.type = EarliestCategory(RuleMatches(toLowerCase(path)))
        /\ \A m \in {RuleMatches(toLowerCase(path))} :
              (m[4] /\ ~m[1] /\ ~m[2] /\ ~m[3]) => pathMeta.type = "test"

\* C16 witness: a file with a test name that lies under the source root and
\* carries a domain keyword, classified test.
C16_Witness ==
    /\ fpc = "done"
    /\ path = "src/auth.test.ts"
    /\ RuleMatches(toLowerCase(path))[4]
    /\ RuleMatches(toLowerCase(path))[6]
    /\ RuleMatches(toLowerCase(path))[12]
    /\ pathMeta.type = "test"

(***************************************************************************)
(* Message post-processing and the reasoning fallback: src/utils/groq.ts   *)
(***************************************************************************)
Digits == "0123456789"

\* The characters the regular expression class \w matches
WordChars ==
    {charAt(UpperCase, i) : i \in 1..Len(UpperCase)}
        \cup {charAt(LowerCase, i) : i \in 1..Len(LowerCase)}
        \cup {charAt(Digits, i) : i \in 1..Len(Digits)} \cup {"_"}

\* message.replace(/[\n\r]/g, '')
RECURSIVE removeLineBreaks(_)
removeLineBreaks(s) ==
    IF Len(s) <= 1 THEN (IF s \in {"\n", "\r"} THEN "" ELSE s)
    ELSE removeLineBreaks(SubSeq(s, 1, Len(s) \div 2))
            \o removeLineBreaks(SubSeq(s, Len(s) \div 2 + 1, Len(s)))

\* message.replace(/(\w)\.$/, '$1')
dropFinalPeriod(s) ==
    IF Len(s) >= 2 /\ charAt(s, Len(s)) = "." /\ charAt(s, Len(s) - 1) \in WordChars
    THEN SubSeq(s, 1, Len(s) - 1)
    ELSE s

sanitizeMessage(message) == dropFinalPeriod(removeLineBreaks(trim(message)))

\* A deduplication that keeps the last occurrence of each message
RECURSIVE deduplicateKeepsLast(_)
deduplicateKeepsLast(arr) ==
    IF arr = <<>> THEN <<>>
    ELSE IF \E i \in 2..Len(arr) : arr[i] = arr[1]
         THEN deduplicateKeepsLast(Tail(arr))
         ELSE <<arr[1]>> \o deduplicateKeepsLast(Tail(arr))

\* Array.from(new Set(array)): first occurrences, in order
RECURSIVE deduplicateMessages(_)
deduplicateMessages(arr) ==
    IF arr = <<>> THEN <<>>
    ELSE LET init == deduplicateMessages(SubSeq(arr, 1, Len(arr) - 1))
             last == arr[Len(arr)]
         IN IF \E i \in 1..Len(init) : init[i] = last THEN init ELSE Append(init, last)

conventionalPrefixes ==
    <<"feat:", "fix:", "docs:", "style:", "refactor:", "perf:", "test:", "build:",
      "ci:", "chore:", "revert:">>

\* The alternation of the regular expression, in its order
TypeWords ==
    <<"feat", "fix", "docs", "style", "refactor", "perf", "test", "build", "ci",
      "chore", "revert">>

\* text.replace(/\s+/g, ' ')
RECURSIVE collapseWhitespace(_)
collapseWhitespace(s) ==
    IF s = "" THEN ""
    ELSE IF Head(s) \in Whitespace
         THEN " " \o collapseWhitespace(trimStart(s))
         ELSE Head(s) \o collapseWhitespace(Tail(s))

\* Length of the longest run of characters of s from position j on that
\* satisfy Class
RECURSIVE RunLength(_, _, _)
RunLength(s, j, Class) ==
    IF j <= Len(s) /\ charAt(s, j) \in Class THEN 1 + RunLength(s, j + 1, Class) ELSE 0

RECURSIVE RunLengthNot(_, _, _)
RunLengthNot(s, j, Class) ==
    IF j <= Len(s) /\ charAt(s, j) \notin Class THEN 1 + RunLengthNot(s, j + 1, Class) ELSE 0

\* \s*:?\s+[^.\n]+ matched from position j of s with backtracking: the
\* position of the last matched character, 0 when there is no match.
\* k is taken by \s*, c by :?, t by \s+, greedy first.
TailHasColon(s, j, k) == j + k <= Len(s) /\ charAt(s, j + k) = ":"

TailFits(s, j, a) ==
    /\ a[2] = 1 => TailHasColon(s, j, a[1])
    /\ j + a[1] + a[2] + a[3] <= Len(s)
    /\ charAt(s, j + a[1] + a[2] + a[3]) \notin {".", "\n"}

TailCandidates(s, j) ==
    UNION {UNION {{<<k, c, t>> : t \in 1..RunLength(s, j + k + c, Whitespace)}
                    : c \in {0, 1}}
             : k \in 0..RunLength(s, j, Whitespace)}

\* The order in which the backtracking tries the candidates
TailBefore(a, b) ==
    \/ a[1] > b[1]
    \/ a[1] = b[1] /\ a[2] > b[2]
    \/ a[1] = b[1] /\ a[2] = b[2] /\ a[3] >= b[3]

TailFirst(good) == CHOOSE a \in good : \A b \in good : TailBefore(a, b)

TailEndFrom(s, p) == p + RunLengthNot(s, p, {".", "\n"}) - 1

TailEndOf(s, j, good) ==
    IF good = {} THEN 0
    ELSE TailEndFrom(s, j + TailFirst(good)[1] + TailFirst(good)[2] + TailFirst(good)[3])

TailMatchEnd(s, j) ==
    TailEndOf(s, j, {a \in TailCandidates(s, j) : TailFits(s, j, a)})

\* \b(feat|fix|...)\b matched case-insensitively at position i of s, whose
\* lower-case form is lower: the length of the word matched, 0 when none
\* matches
TypeWordFits(s, lower, i, w) ==
    /\ i + Len(w) - 1 <= Len(s)
    /\ SubSeq(lower, i, i + Len(w) - 1) = w
    /\ (i + Len(w) > Len(s) \/ charAt(s, i + Len(w)) \notin WordChars)

FirstTypeWord(hits) ==
    IF hits = {} THEN 0
    ELSE Len(TypeWords[CHOOSE n \in hits : \A m \in hits : n <= m])

TypeWordAt(s, lower, i) ==
    IF i > 1 /\ charAt(s, i - 1) \in WordChars THEN 0
    ELSE FirstTypeWord({n \in 1..Len(TypeWords) : TypeWordFits(s, lower, i, TypeWords[n])})

\* The end of the match that starts at position i with a type word of
\* length w, 0 when there is none
MatchEndAt(s, i, w) == IF w = 0 THEN 0 ELSE TailMatchEnd(s, i + w)

\* The leftmost match that starts at position i or later, or Undefined
RECURSIVE MatchFrom(_, _, _)
MatchOrNext(s, lower, i, e) ==
    IF e > 0 THEN SubSeq(s, i, e) ELSE MatchFrom(s, lower, i + 1)

MatchFrom(s, lower, i) ==
    IF i > Len(s) THEN Undefined
    ELSE MatchOrNext(s, lower, i, MatchEndAt(s, i, TypeWordAt(s, lower, i)))

\* cleaned.match(/\b(feat|...)\b\s*:?\s+[^.\n]+/i): match[0], or Undefined
matchConventional(s) == MatchFrom(s, toLowerCase(s), 1)

\* cleaned.split(/[.!?]/)[0]
firstClause(s) == SubSeq(s, 1, RunLengthNot(s, 1, {".", "!", "?"}))

\* The loop that inserts a missing colon after a leading type word: lower
\* is candidate.toLowerCase(), n the index of the prefix tried, p the prefix
\* without its colon
RECURSIVE addColon(_, _, _)
addColonWith(candidate, lower, n, prefix, p) ==
    IF startsWith(lower, p \o " ") /\ ~startsWith(lower, prefix)
    THEN p \o ": " \o SubSeq(candidate, Len(p) + 2, Len(candidate))
    ELSE addColon(candidate, lower, n + 1)

addColon(candidate, lower, n) ==
    IF n > Len(conventionalPrefixes) THEN candidate
    ELSE addColonWith(candidate, lower, n, conventionalPrefixes[n],
                      SubSeq(conventionalPrefixes[n], 1, Len(conventionalPrefixes[n]) - 1))

\* if (!candidate) return null; the cut at maxLength
deriveCut(sanitized, limit) ==
    IF sanitized = "" THEN Undefined
    ELSE IF Len(sanitized) > limit THEN SubSeq(sanitized, 1, limit)
    ELSE sanitized

deriveFormat(candidate, limit) ==
    deriveCut(sanitizeMessage(addColon(candidate, toLowerCase(candidate), 1)), limit)

\* match ? match[0] : cleaned.split(/[.!?]/)[0]
deriveCandidate(cleaned, match) ==
    IF match # Undefined THEN match ELSE firstClause(cleaned)

deriveFromCleaned(cleaned, limit) ==
    deriveFormat(deriveCandidate(cleaned, matchConventional(cleaned)), limit)

\* Returns Undefined where the code returns null
deriveMessageFromReasoning(text, limit) ==
    deriveFromCleaned(trim(collapseWhitespace(text)), limit)

(***************************************************************************)
(* The backend request: createChatCompletion, src/utils/groq.ts            *)
(***************************************************************************)
\* What the backend puts in choice.message.content / .reasoning; "" stands
\* for an absent, null or empty field
Contents == {"", "fix: a", " fix: a.\n", "feat: b"}
Reasonings == {"", "We should fix the bug. So", "Hm."}

Choices == [content : Contents, reasoning : Reasonings]

\* How a physical call can fail: an API error of the SDK (status, size,
\* rate limit, timeout), a host that is not found, any other error
BackendErrors == {"APIError", "ENOTFOUND", "Error"}

\* The catch block of createChatCompletion: the error it throws
ChatThrow(e) ==
    IF e = "APIError" THEN [known |-> TRUE, message |-> "Groq API Error", code |-> Undefined]
    ELSE IF e = "ENOTFOUND"
         THEN [known |-> TRUE, message |-> "Error connecting to host", code |-> Undefined]
    ELSE [known |-> FALSE, message |-> "Error", code |-> Undefined]

\* A merge that keeps what the fulfilled calls returned and skips the others.
MergeFulfilledChoices(cs) ==
    LET F[i \in 0..Len(cs)] ==
            IF i = 0 THEN <<>>
            ELSE IF cs[i].state = "fulfilled" THEN F[i - 1] \o cs[i].choices ELSE F[i - 1]
    IN  F[Len(cs)]

\* completions.flatMap(completion => completion.choices)
MergeChoices(cs) ==
    LET F[i \in 0..Len(cs)] == IF i = 0 THEN <<>> ELSE F[i - 1] \o cs[i].choices
    IN  F[Len(cs)]

\* A settle handler that answers with the merged choices once every call
\* has settled, whatever failed.
ChatSettleAllSettled(cs, outcome, res, err) ==
    IF outcome # "pending" THEN [outcome |-> outcome, result |-> res, error |-> err]
    ELSE IF \A i \in 1..Len(cs) : cs[i].state # "pending"
         THEN [outcome |-> "returned", result |-> MergeFulfilledChoices(cs), error |-> err]
    ELSE [outcome |-> outcome, result |-> res, error |-> err]

\* await Promise.all(...) and the catch block, run when a call settles: cs
\* are the calls after the settling, in call order
ChatSettle(cs, outcome, res, err) ==
    IF outcome # "pending" THEN [outcome |-> outcome, result |-> res, error |-> err]
    ELSE IF \E i \in 1..Len(cs) : cs[i].state = "rejected"
         THEN LET i == CHOOSE i \in 1..Len(cs) : cs[i].state = "rejected"
              IN [outcome |-> "thrown", result |-> <<>>, error |-> ChatThrow(cs[i].error)]
    ELSE IF \A i \in 1..Len(cs) : cs[i].state = "fulfilled"
         THEN [outcome |-> "returned", result |-> MergeChoices(cs), error |-> err]
    ELSE [outcome |-> outcome, result |-> res, error |-> err]

NoError == [known |-> FALSE, message |-> "", code |-> Undefined]

InitChat ==
    /\ IdlePart /\ IdleGroup /\ IdleSynth /\ IdleCli /\ IdlePure /\ IdlePost
    /\ chatN \in 1..MaxCompletions
    /\ calls = <<>>
    /\ chatOutcome = "init"
    /\ chatResult = <<>>
    /\ chatError = NoError

\* client.chat.completions.create(...) n times for n > 1, once otherwise;
\* every physical call asks for n: 1
ChatIssueCalls ==
    /\ chatOutcome = "init"
    /\ calls' = [i \in 1..chatN |->
                    [state |-> "pending", n |-> 1, choices |-> <<>>, error |-> ""]]
    /\ chatOutcome' = "pending"
    /\ UNCHANGED <<chatN, chatResult, chatError, varsPart, varsGroup, varsSynth, varsCli, varsPure, varsPost>>

CallFulfils(i, choice) ==
    /\ chatOutcome # "init"
    /\ i \in 1..Len(calls)
    /\ calls[i].state = "pending"
    /\ calls' = [calls EXCEPT ![i].state = "fulfilled", ![i].choices = <<choice>>]
    /\ LET r == ChatSettle(calls', chatOutcome, chatResult, chatError) IN
        /\ chatOutcome' = r.outcome
        /\ chatResult' = r.result
        /\ chatError' = r.error
    /\ UNCHANGED <<chatN, varsPart, varsGroup, varsSynth, varsCli, varsPure, varsPost>>

CallRejects(i, e) ==
    /\ chatOutcome # "init"
    /\ i \in 1..Len(calls)
    /\ calls[i].state = "pending"
    /\ calls' = [calls EXCEPT ![i].state = "rejected", ![i].error = e]
    /\ LET r == ChatSettle(calls', chatOutcome, chatResult, chatError) IN
        /\ chatOutcome' = r.outcome
        /\ chatResult' = r.result
        /\ chatError' = r.error
    /\ UNCHANGED <<chatN, varsPart, varsGroup, varsSynth, varsCli, varsPure, varsPost>>

NextChat ==
    \/ ChatIssueCalls
    \/ \E i \in 1..MaxCompletions + 1 : \E choice \in Choices : CallFulfils(i, choice)
    \/ \E i \in 1..MaxCompletions + 1 : \E e \in BackendErrors : CallRejects(i, e)

SpecChat == InitChat /\ [][NextChat]_vars

(***************************************************************************)
(* Claims about the backend request                                        *)
(***************************************************************************)
ChatSettled == chatOutcome \in {"returned", "thrown"}

SomeCallFailed == \E i \in 1..Len(calls) : calls[i].state = "rejected"

\* Choices of the fulfilled call i are in the result, at some position
KeptInResult(i) ==
    \E k \in 1..Len(chatResult) : chatResult[k] = calls[i].choices[1]

\* C7 (as stated): for n > 1 there are n physical calls that ask for one
\* completion each, and when one fails while others succeed the completions
\* of those that succeeded are in the merged result.
C7_PartialResultsKept ==
    (ChatSettled /\ chatN > 1) =>
        /\ Len(calls) = chatN
        /\ \A i \in 1..Len(calls) : calls[i].n = 1
        /\ \A i \in 1..Len(calls) :
              (SomeCallFailed /\ calls[i].state = "fulfilled") => KeptInResult(i)

\* C7 (amended): for n > 1 there are n physical calls that ask for one
\* completion each; the request returns only when every call succeeded, with
\* the choices of all calls merged in call order; as soon as one call fails
\* the request fails as a whole and returns no merged result, so the
\* completions of the calls that succeeded are discarded.
C7_AllOrNothing ==
    (ChatSettled /\ chatN > 1) =>
        /\ Len(calls) = chatN
        /\ \A i \in 1..Len(calls) : calls[i].n = 1
        /\ chatOutcome = "returned" =>
              /\ \A i \in 1..Len(calls) : calls[i].state = "fulfilled"
              /\ Len(chatResult) = chatN
              /\ \A i \in 1..Len(calls) : chatResult[i] = calls[i].choices[1]
        /\ chatOutcome = "thrown" => (SomeCallFailed /\ chatResult = <<>>)
        /\ SomeCallFailed => chatOutcome = "thrown"

\* C7 witness: one of several calls failed and another one succeeded.
C7_Witness ==
    /\ chatN > 1
    /\ chatOutcome = "thrown"
    /\ \E i \in 1..Len(calls) : calls[i].state = "fulfilled"


(***************************************************************************)
(* Message synthesis: generateCommitMessage and                            *)
(* generateCommitMessageFromChunks, src/utils/groq.ts                      *)
(***************************************************************************)
\* createChatCompletion seen from its caller: cs are the physical calls as
\* they stand when the awaited Promise.all settles
createChatCompletion(cs) == ChatSettle(cs, "pending", <<>>, NoError)

\* The runs of n physical calls that settle the request: every call
\* fulfilled, or one call rejected while each of the others is still pending
\* or has fulfilled (with what does not matter: the request fails)
Fulfilled(choice) == [state |-> "fulfilled", n |-> 1, choices |-> <<choice>>, error |-> ""]
Rejected(e) == [state |-> "rejected", n |-> 1, choices |-> <<>>, error |-> e]
Pending == [state |-> "pending", n |-> 1, choices |-> <<>>, error |-> ""]

ChatRuns(n, choiceSet) ==
    LET fulfilled == {Fulfilled(c) : c \in choiceSet}
        some == CHOOSE f \in fulfilled : TRUE
        others == [1..n -> {some, Pending}]
    IN  [1..n -> fulfilled]
        \cup {[cs EXCEPT ![i] = Rejected(e)] :
                cs \in others, i \in 1..n, e \in BackendErrors}

\* What the backend answers in the runs of the synthesis
SynthContents == {"", "fix: a", " fix: a longer subject.\n"}
SynthReasonings == {"", "We fix it. So"}
\* A choice carries a content, or a reasoning only, or neither: the reasoning
\* of a choice that has a content is never read
SynthChoices ==
    {c \in [content : SynthContents, reasoning : SynthReasonings] :
        c.content = "" \/ c.reasoning = ""}
SynthMaxLengths == {ShortMaxLength, DefaultMaxLength}

\* What the backend answers when generateCommitMessage is applied on its own:
\* a content may be all whitespace, a reasoning may yield no message
GenContents == {"", " \n", "fix: a", "feat: b."}
GenReasonings == {"", ".", "We fix it. So", "docs c"}

\* Contents that repeat after sanitization, for the deduplication
DedupContents == {"fix: a", " fix: a\n", "feat: b."}

AnswerContents == SynthContents \cup GenContents \cup DedupContents
AnswerReasonings == SynthReasonings \cup GenReasonings

\* sanitizeMessage and deriveMessageFromReasoning on these answers, computed
\* once for all the runs
SanitizedAnswer == [c \in AnswerContents |-> sanitizeMessage(c)]
DerivedAnswer ==
    [r \in AnswerReasonings, l \in SynthMaxLengths |-> deriveMessageFromReasoning(r, l)]

\* choices.map(c => c.message?.content || ''), and the same for reasoning
ContentsOf(choices) == [i \in 1..Len(choices) |-> choices[i].content]
ReasoningsOf(choices) == [i \in 1..Len(choices) |-> choices[i].reasoning]

RECURSIVE SanitizeAll(_)
SanitizeAll(arr) ==
    IF arr = <<>> THEN <<>> ELSE <<SanitizedAnswer[arr[1]]>> \o SanitizeAll(Tail(arr))

\* if (derived) push / return [derived]
DerivedOrNone(derived) == IF ~Falsy(derived) THEN <<derived>> ELSE <<>>

\* The loop over the reasoning candidates: the first derived message
RECURSIVE firstDerived(_, _)
firstDerived(reasons, limit) ==
    IF reasons = <<>> THEN <<>>
    ELSE IF ~Falsy(DerivedAnswer[Head(reasons), limit])
         THEN <<DerivedAnswer[Head(reasons), limit]>>
         ELSE firstDerived(Tail(reasons), limit)

\* The catch block of generateCommitMessage
GenerateThrow(error) ==
    IF error.code = "ENOTFOUND"
    THEN [known |-> TRUE, message |-> "Error connecting to host", code |-> Undefined]
    ELSE error

\* Candidates that add the message derived from reasoning to those of the
\* content.
CandidatesOfMixed(msgs, reasoningCandidates, limit) ==
    deduplicateMessages(msgs) \o firstDerived(reasoningCandidates, limit)

\* The candidates generateCommitMessage returns
CandidatesOf(msgs, reasoningCandidates, limit) ==
    IF Len(msgs) > 0 THEN deduplicateMessages(msgs)
    ELSE firstDerived(reasoningCandidates, limit)

\* The body of generateCommitMessage once createChatCompletion has settled
generateFrom(completion, limit) ==
    IF completion.outcome = "thrown"
    THEN [outcome |-> "thrown", result |-> <<>>, error |-> GenerateThrow(completion.error)]
    ELSE [outcome |-> "returned",
          result |-> CandidatesOf(SelectNonEmpty(SanitizeAll(ContentsOf(completion.result))),
                                  SelectNonEmpty(ReasoningsOf(completion.result)), limit),
          error |-> NoError]

\* generateCommitMessage, given how the calls of its request went
generateCommitMessage(cs, limit) == generateFrom(createChatCompletion(cs), limit)

\* The chunks of generateCommitMessageFromChunks: per file first
RECURSIVE FlatChunks(_, _)
FlatChunks(fileDiffs, size) ==
    IF fileDiffs = <<>> THEN <<>>
    ELSE chunkDiff(Head(fileDiffs), size) \o FlatChunks(Tail(fileDiffs), size)

\* Variant: the diff is chunked as a whole, without the split by file
chunksOfWholeDiff(text, size) == chunkDiff(text, size)

chunksOf(text, size) ==
    LET perFileChunks == FlatChunks(splitDiffByFile(text), size) IN
    IF Len(perFileChunks) > 0 THEN perFileChunks ELSE chunkDiff(text, size)

ModelLimit == 7500
PromptReserve == 1200
MinOutputTokens == 200

\* Math.max(200, maxLength * 8)
outputTokens(limit) == Max(MinOutputTokens, limit * 8)

effectiveMaxTokens(chunk, limit) ==
    LET approxInputTokens == estimateTokenCount(chunk) + PromptReserve IN
    IF approxInputTokens + outputTokens(limit) > ModelLimit
    THEN Max(MinOutputTokens, ModelLimit - approxInputTokens)
    ELSE outputTokens(limit)

\* s.replace(pattern, '') for a string pattern: the first occurrence only
removeFirst(s, pattern) ==
    LET i == indexOf(s, pattern) IN
    IF i = 0 THEN s
    ELSE SubSeq(s, 1, i - 1) \o SubSeq(s, i + Len(pattern), Len(s))

\* The file name the fallback reads from the first line of a file's block
fileNameOf(block) ==
    LET first == split(block, "\n")[1]
        ps == split(first, " ")
    IN  IF Len(ps) >= 3 THEN removeFirst(ps[3], "a/") ELSE ""

MaxFileNames == 15

fileNamesOf(text) ==
    LET blocks == splitDiffByFile(text)
        names == SelectNonEmpty([i \in 1..Len(blocks) |-> fileNameOf(blocks[i])])
    IN  SubSeq(names, 1, Min(Len(names), MaxFileNames))

\* What a per-chunk response adds to chunkMessages
chunkMessageFrom(texts, reasons, limit) ==
    IF Len(texts) > 0 THEN <<SanitizedAnswer[texts[1]]>>
    ELSE IF Len(reasons) > 0 THEN DerivedOrNone(DerivedAnswer[reasons[1], limit])
    ELSE <<>>

chunkMessageOf(completion, limit) ==
    chunkMessageFrom(SelectNonEmpty(ContentsOf(completion.result)),
                     SelectNonEmpty(ReasoningsOf(completion.result)), limit)

\* A logical backend request as the run issued it: what it carried, whether
\* it returned, and the message of the error it threw ("" when it returned)
Request(kind, text, list, n, max_tokens, ok, error) ==
    [kind |-> kind, text |-> text, list |-> list, n |-> n, max_tokens |-> max_tokens,
     ok |-> ok, error |-> error]

\* Variant: the run fails as soon as the loop has collected no message
AfterChunksFailsAtOnce(msgs) ==
    IF Len(msgs) = 0 THEN "thrown"
    ELSE IF Len(msgs) > 1 THEN "combine"
    ELSE "returned"

\* Where the run goes once the loop over the chunks is over
AfterChunks(msgs) ==
    IF Len(msgs) = 0 THEN "fallback"
    ELSE IF Len(msgs) > 1 THEN "combine"
    ELSE "returned"

SynthLines == {"diff --git a/x b/x", "diff --git a/y b/y", "+bcd"}

\* Diffs as git prints them: the first line opens a file
SynthDiffs ==
    {join(ls, "\n") :
        ls \in {l \in UNION {[1..k -> SynthLines] : k \in 1..MaxSynthLines} :
                    startsWith(l[1], FileMarker)}}

\* s repeated n times
RECURSIVE Repeated(_, _)
Repeated(s, n) ==
    IF n = 0 THEN ""
    ELSE IF n % 2 = 1 THEN s \o Repeated(s, n - 1)
    ELSE Repeated(s \o s, n \div 2)

\* chunkSize: number = 6000
DefaultChunkSize == 6000

\* One file whose only changed line, of 25301 characters, is larger than the
\* default chunk budget
LongLine == "+" \o Repeated("abcdefghij", 2530)
LongLineDiff == "diff --git a/x b/x\n" \o LongLine

InitSynth ==
    /\ IdleGroup /\ IdleChat /\ IdleCli /\ IdlePure /\ IdlePost
    /\ \/ diff \in SynthDiffs /\ chunkSize \in {SmallChunkSize, LargeChunkSize}
       \/ diff = LongLineDiff /\ chunkSize = DefaultChunkSize
    /\ maxTokens = 0 /\ parts = <<>> /\ ppc = "idle"
    /\ chunks = <<>>
    /\ completions \in 1..MaxSynthCompletions
    /\ maxLength \in SynthMaxLengths
    /\ chunkIndex = 0
    /\ chunkMessages = <<>>
    /\ requests = <<>>
    /\ spc = "start"
    /\ result = <<>>
    /\ thrown = NoError

\* Lines 345-347 and the test of chunks.length
SynthStart ==
    /\ spc = "start"
    /\ chunks' = chunksOf(diff, chunkSize)
    /\ chunkIndex' = 1
    /\ spc' = IF Len(chunks') = 1 THEN "single"
              ELSE IF Len(chunks') = 0 THEN AfterChunks(<<>>)
              ELSE "chunk"
    /\ UNCHANGED <<diff, maxTokens, parts, ppc, chunkSize, completions, maxLength,
                   chunkMessages, requests, result, thrown, varsGroup, varsChat,
                   varsCli, varsPure, varsPost>>

\* The single-chunk path: one request with the whole diff
SingleRequest ==
    /\ spc = "single"
    /\ \E cs \in ChatRuns(completions, SynthChoices) :
       \E r \in {generateCommitMessage(cs, maxLength)} :
        /\ requests' = Append(requests,
                Request("full", diff, <<>>, completions, outputTokens(maxLength),
                        r.outcome = "returned", r.error.message))
        /\ IF r.outcome = "returned"
           THEN /\ spc' = "returned"
                /\ result' = r.result
                /\ thrown' = thrown
           ELSE /\ spc' = "thrown"
                /\ result' = result
                /\ thrown' = [known |-> TRUE, code |-> Undefined,
                              message |-> "Failed to generate commit message: "
                                            \o r.error.message]
    /\ UNCHANGED <<diff, maxTokens, parts, ppc, chunks, chunkSize, completions,
                   maxLength, chunkIndex, chunkMessages, varsGroup, varsChat,
                   varsCli, varsPure, varsPost>>

\* The chunk messages after the request for a chunk has settled as r
chunkMessagesAfter(r, limit) ==
    IF r.outcome = "returned" THEN chunkMessages \o chunkMessageOf(r, limit)
    ELSE chunkMessages

\* One turn of the loop over the chunks: the request for chunks[chunkIndex]
ChunkRequest ==
    /\ spc = "chunk"
    /\ chunkIndex <= Len(chunks)
    /\ \E cs \in ChatRuns(1, SynthChoices) :
       \E r \in {createChatCompletion(cs)} :
       \E msgs \in {chunkMessagesAfter(r, maxLength)} :
        /\ requests' = Append(requests,
                Request("chunk", chunks[chunkIndex], <<>>, 1,
                        effectiveMaxTokens(chunks[chunkIndex], maxLength),
                        r.outcome = "returned", r.error.message))
        /\ chunkMessages' = msgs
        /\ chunkIndex' = chunkIndex + 1
        /\ IF chunkIndex < Len(chunks)
           THEN spc' = "chunk" /\ result' = result
           ELSE /\ spc' = AfterChunks(msgs)
                /\ result' = IF AfterChunks(msgs) = "returned" THEN msgs ELSE result
    /\ UNCHANGED <<diff, maxTokens, parts, ppc, chunks, chunkSize, completions,
                   maxLength, thrown, varsGroup, varsChat, varsCli, varsPure, varsPost>>

\* The texts of the answer to the file-list request, none when it failed
fallbackTexts(r) ==
    IF r.outcome = "returned" THEN SelectNonEmpty(ContentsOf(r.result)) ELSE <<>>

\* No chunk gave a message: one request with the file names only
FallbackRequest ==
    /\ spc = "fallback"
    /\ \E cs \in ChatRuns(1, SynthChoices) :
       \E r \in {createChatCompletion(cs)} :
       \E texts \in {fallbackTexts(r)} :
        /\ requests' = Append(requests,
                Request("filelist", "", fileNamesOf(diff), 1, outputTokens(maxLength),
                        r.outcome = "returned", r.error.message))
        /\ IF Len(texts) > 0
           THEN /\ spc' = "returned"
                /\ result' = <<SanitizedAnswer[texts[1]]>>
                /\ thrown' = thrown
           ELSE /\ spc' = "thrown"
                /\ result' = result
                /\ thrown' = [known |-> TRUE, code |-> Undefined,
                              message |-> "Failed to generate commit messages for any chunks"]
    /\ UNCHANGED <<diff, maxTokens, parts, ppc, chunks, chunkSize, completions,
                   maxLength, chunkIndex, chunkMessages, varsGroup, varsChat,
                   varsCli, varsPure, varsPost>>

\* Several chunk messages: one request to combine them
CombineRequest ==
    /\ spc = "combine"
    /\ \E cs \in ChatRuns(completions, SynthChoices) :
       \E r \in {generateCommitMessage(cs, maxLength)} :
        /\ requests' = Append(requests,
                Request("combine", "", chunkMessages, completions,
                        outputTokens(maxLength), r.outcome = "returned",
                        r.error.message))
        /\ spc' = "returned"
        /\ result' = IF r.outcome = "returned" THEN r.result ELSE chunkMessages
    /\ UNCHANGED <<diff, maxTokens, parts, ppc, chunks, chunkSize, completions,
                   maxLength, chunkIndex, chunkMessages, thrown, varsGroup, varsChat,
                   varsCli, varsPure, varsPost>>

NextSynth ==
    \/ SynthStart
    \/ SingleRequest
    \/ ChunkRequest
    \/ FallbackRequest
    \/ CombineRequest

SpecSynth == InitSynth /\ [][NextSynth]_vars

(***************************************************************************)
(* Claims about generateCommitMessageFromChunks                            *)
(***************************************************************************)
SynthEnded == spc \in {"returned", "thrown"}

RequestsOfKind(kind) == {i \in 1..Len(requests) : requests[i].kind = kind}

FullDiffOnly ==
    /\ Len(requests) = 1
    /\ requests[1].kind = "full"
    /\ requests[1].text = diff

\* C4 as stated: whenever the estimated token count of the whole diff is
\* within the chunk budget, the run sends the full diff in a single request
\* and issues no per-chunk request; per-chunk requests are issued only when
\* the full diff exceeds the budget.
C4_FullDiffWhenWithinBudget ==
    /\ (SynthEnded /\ estimateTokenCount(diff) <= chunkSize) => FullDiffOnly
    /\ RequestsOfKind("chunk") # {} => estimateTokenCount(diff) > chunkSize

\* C4 amended: the diff is split by file before it is chunked, and the full
\* diff is sent as a single request exactly when that yields one chunk. A diff
\* within the budget with at most one file block yields one chunk; a diff with
\* two or more file blocks yields at least two chunks and is never sent as a
\* full diff, whatever its size.
C4_FullDiffIffOneChunk ==
    spc # "start" =>
        /\ Len(chunks) = 1 =>
              /\ RequestsOfKind("chunk") = {}
              /\ RequestsOfKind("filelist") = {}
              /\ SynthEnded => FullDiffOnly
        /\ Len(chunks) # 1 => RequestsOfKind("full") = {}
        /\ (estimateTokenCount(diff) <= chunkSize /\ Len(splitDiffByFile(diff)) <= 1)
              => Len(chunks) = 1
        /\ Len(splitDiffByFile(diff)) >= 2 => Len(chunks) >= 2

\* A diff of two file blocks within the budget, answered chunk by chunk
C4_Witness ==
    /\ SynthEnded
    /\ estimateTokenCount(diff) <= chunkSize
    /\ Len(splitDiffByFile(diff)) = 2
    /\ Cardinality(RequestsOfKind("chunk")) = 2
    /\ RequestsOfKind("full") = {}

LastRequestIs(kind) ==
    /\ Len(requests) >= 1
    /\ requests[Len(requests)].kind = kind

C6_CombineFallsBackToChunkMessages ==
    (SynthEnded /\ Len(chunkMessages) >= 2) =>
        /\ Cardinality(RequestsOfKind("combine")) = 1
        /\ LastRequestIs("combine")
        /\ spc = "returned"
        /\ result # <<>>
        /\ ~requests[Len(requests)].ok => result = chunkMessages

RECURSIVE HasDuplicates(_)
HasDuplicates(arr) ==
    IF arr = <<>> THEN FALSE
    ELSE \/ \E i \in 2..Len(arr) : arr[i] = arr[1]
         \/ HasDuplicates(Tail(arr))

\* C10: on every return path the candidates returned by a synthesis call are
\* pairwise distinct.
C10_NoDuplicateCandidates ==
    spc = "returned" => ~HasDuplicates(result)

\* The small tolerance by which a candidate may exceed max-length
LengthTolerance == 10

\* C11: every candidate a synthesis call returns, whether taken from the
\* structured content, derived from reasoning text or produced per chunk, is
\* no longer than the configured maximum length plus the small tolerance.
C11_CandidatesWithinMaxLength ==
    spc = "returned" =>
        \A i \in 1..Len(result) : Len(result[i]) <= maxLength + LengthTolerance

\* C12: a synthesis call that returns instead of throwing returns at least
\* one candidate; a run in which no message could be derived ends in the
\* failure outcome, never in a successful empty result.
C12_ReturnsAtLeastOneCandidate ==
    spc = "returned" => Len(result) >= 1

\* The message of the error createChatCompletion throws for ENOTFOUND
ConnectivityMessage == "Error connecting to host"

\* C13: whenever a backend call fails with a connectivity error (host not
\* found), the run ends with the connectivity error that names the host and
\* no further backend request is issued after the failed one, on the
\* single-request path and on the multi-chunk path alike.
C13_ConnectivityErrorEndsRun ==
    \A i \in 1..Len(requests) :
        requests[i].error = ConnectivityMessage =>
            /\ i = Len(requests)
            /\ spc = "thrown"
            /\ includes(thrown.message, ConnectivityMessage)

\* C29: for every per-chunk request, the estimated input tokens (the estimate
\* of the chunk plus the 1200 reserved) plus the output-token ceiling sent to
\* the backend do not exceed 7500, for every chunk and every maxLength.
C29_ChunkRequestWithinModelLimit ==
    \A i \in RequestsOfKind("chunk") :
        estimateTokenCount(requests[i].text) + PromptReserve + requests[i].max_tokens
            <= ModelLimit

(***************************************************************************)
(* generateCommitMessage applied to bounded backend answers                *)
(***************************************************************************)
GenChoices == [content : GenContents, reasoning : GenReasonings]

GenChoiceLists == UNION {[1..k -> GenChoices] : k \in 1..MaxSynthCompletions}

\* Answers of MaxDedupChoices choices whose contents repeat
DedupChoiceLists == [1..MaxDedupChoices -> [content : DedupContents, reasoning : {""}]]

\* The variables of the synthesis at rest, but for the maximum length
SynthIdleButMaxLength ==
    /\ chunkSize = 0 /\ completions = 0 /\ chunkIndex = 0 /\ chunkMessages = <<>>
    /\ requests = <<>> /\ spc = "idle" /\ result = <<>> /\ thrown = <<>>

InitGenerate ==
    /\ IdlePart /\ IdleGroup /\ IdleChat /\ IdleCli /\ SynthIdleButMaxLength
    /\ maxLength \in SynthMaxLengths
    /\ choiceList \in GenChoiceLists \cup DedupChoiceLists
    /\ candidates = <<>>
    /\ path = "" /\ pathMeta = <<>> /\ reasoningText = "" /\ derivedMessage = ""
    /\ fpc = "input"
    /\ IdlePost

\* generateCommitMessage on a request that returned the choices
CallGenerateCommitMessage ==
    /\ fpc = "input"
    /\ choiceList # <<>>
    /\ candidates' =
          generateFrom([outcome |-> "returned", result |-> choiceList, error |-> NoError],
                       maxLength).result
    /\ fpc' = "done"
    /\ UNCHANGED <<path, pathMeta, reasoningText, derivedMessage, choiceList,
                   varsPart, varsGroup, varsChat, varsSynth, varsCli, varsPost>>

NextGenerate == CallGenerateCommitMessage

SpecGenerate == InitGenerate /\ [][NextGenerate]_vars

(***************************************************************************)
(* Claims about generateCommitMessage                                      *)
(***************************************************************************)
Generated == fpc = "done" /\ choiceList # <<>>

\* The contents of the choices that are not empty after sanitization
ContentMessages(cl) ==
    {sanitizeMessage(cl[i].content) : i \in 1..Len(cl)} \ {""}

\* The choices whose reasoning yields a message
Derivable(cl, limit) ==
    {i \in 1..Len(cl) :
        cl[i].reasoning # "" /\ ~Falsy(DerivedAnswer[cl[i].reasoning, limit])}

FirstDerivable(cl, limit) ==
    CHOOSE i \in Derivable(cl, limit) : \A j \in Derivable(cl, limit) : i <= j

\* C18: generateCommitMessage uses reasoning text only when every
\* completion's content is empty after sanitization, and then returns exactly
\* one candidate, derived from the first reasoning field in completion order
\* that yields a non-empty message; candidates from content and from reasoning
\* are never mixed and later reasoning fields are not merged.
C18_ReasoningOnlyWithoutContent ==
    Generated =>
        /\ ContentMessages(choiceList) # {} =>
              /\ candidates # <<>>
              /\ \A k \in 1..Len(candidates) :
                    candidates[k] \in ContentMessages(choiceList)
        /\ (ContentMessages(choiceList) = {} /\ Derivable(choiceList, maxLength) # {}) =>
              candidates =
                <<DerivedAnswer[choiceList[FirstDerivable(choiceList, maxLength)].reasoning,
                                maxLength]>>
        /\ (ContentMessages(choiceList) = {} /\ Derivable(choiceList, maxLength) = {}) =>
              candidates = <<>>

\* C18 witness: two completions without a usable content, the first with a
\* reasoning that yields nothing and the second with one that yields a
\* message, which is the only candidate.
C18_Witness ==
    /\ Generated
    /\ Len(choiceList) = 2
    /\ choiceList[1].content = " \n"
    /\ choiceList[1].reasoning = "."
    /\ choiceList[2].reasoning = "We fix it. So"
    /\ ContentMessages(choiceList) = {}
    /\ Len(candidates) = 1

\* The first choice whose sanitized content is m
FirstContentAt(cl, m) ==
    CHOOSE i \in 1..Len(cl) :
        /\ sanitizeMessage(cl[i].content) = m
        /\ \A j \in 1..(i - 1) : sanitizeMessage(cl[j].content) # m

\* C24: deduplication returns each distinct sanitized string exactly once,
\* in the order of its first occurrence in the input list.
C24_DistinctInFirstSeenOrder ==
    (Generated /\ ContentMessages(choiceList) # {}) =>
        /\ {candidates[i] : i \in 1..Len(candidates)} = ContentMessages(choiceList)
        /\ ~HasDuplicates(candidates)
        /\ \A i, j \in 1..Len(candidates) :
              i < j => FirstContentAt(choiceList, candidates[i])
                          < FirstContentAt(choiceList, candidates[j])

\* An answer whose first and third contents sanitize to the same string and
\* whose second does not
C24_Witness ==
    /\ Generated
    /\ Len(choiceList) = 3
    /\ choiceList[1].content # choiceList[3].content
    /\ sanitizeMessage(choiceList[1].content) = sanitizeMessage(choiceList[3].content)
    /\ sanitizeMessage(choiceList[2].content) # sanitizeMessage(choiceList[1].content)
    /\ Len(candidates) = 2
    /\ candidates[1] = sanitizeMessage(choiceList[1].content)

(***************************************************************************)
(* deriveMessageFromReasoning applied to bounded reasoning texts           *)
(***************************************************************************)
\* Reasoning texts: an optional lead, a word that is or is not a category
\* word, the ways the model may space the colon, a subject
TextLeads == {"", "We should "}
TextWords == {"fix", "Fix", "docs", "prefix", "Hm", "update"}
TextSeparators == {" ", ": ", " : ", ":"}
TextSubjects == {"a", "the bug. So", "it\n now"}

ReasoningTexts ==
    {l \o w \o p \o x :
        l \in TextLeads, w \in TextWords, p \in TextSeparators, x \in TextSubjects}
    \cup {"Hm.", ".", "fix"}

InitDerive ==
    /\ IdlePart /\ IdleGroup /\ IdleChat /\ IdleCli /\ SynthIdleButMaxLength
    /\ maxLength \in SynthMaxLengths
    /\ reasoningText \in ReasoningTexts
    /\ derivedMessage = ""
    /\ path = "" /\ pathMeta = <<>> /\ choiceList = <<>> /\ candidates = <<>>
    /\ fpc = "input"
    /\ IdlePost

CallDeriveMessageFromReasoning ==
    /\ fpc = "input"
    /\ reasoningText # ""
    /\ derivedMessage' = deriveMessageFromReasoning(reasoningText, maxLength)
    /\ fpc' = "done"
    /\ UNCHANGED <<path, pathMeta, reasoningText, choiceList, candidates,
                   varsPart, varsGroup, varsChat, varsSynth, varsCli, varsPost>>

NextDerive == CallDeriveMessageFromReasoning

SpecDerive == InitDerive /\ [][NextDerive]_vars

(***************************************************************************)
(* Claims about deriveMessageFromReasoning                                 *)
(***************************************************************************)
Derived == fpc = "done" /\ reasoningText # ""

\* The text as the function reads it
Cleaned == trim(collapseWhitespace(reasoningText))

\* Position j of s, after optional whitespace, an optional colon and optional
\* whitespace, begins a subject
SkipColon(s, j) == IF j <= Len(s) /\ charAt(s, j) = ":" THEN j + 1 ELSE j

SkipSpace(s, j) == j + RunLength(s, j, Whitespace)

SubjectAfter(s, j) ==
    /\ SkipSpace(s, SkipColon(s, SkipSpace(s, j))) <= Len(s)
    /\ charAt(s, SkipSpace(s, SkipColon(s, SkipSpace(s, j)))) \in WordChars

\* s holds a category word followed, with or without a colon, by a subject
CategoryThenSubject(s, lower) ==
    \E i \in 1..Len(s) :
        /\ TypeWordAt(s, lower, i) > 0
        /\ SubjectAfter(s, i + TypeWordAt(s, lower, i))

\* m has the form '<category>: <subject>'
CategoryColonSubject(m, lower) ==
    \E n \in 1..Len(TypeWords) :
        /\ startsWith(lower, TypeWords[n] \o ": ")
        /\ Len(m) >= Len(TypeWords[n]) + 3
        /\ charAt(m, Len(TypeWords[n]) + 3) \notin {" ", ":"}

\* C19: when the reasoning text holds a category word followed, with or
\* without a colon, by a subject, deriveMessageFromReasoning returns a message
\* of the form '<category>: <subject>', one colon directly after the category
\* word and one space before the subject, however the colon was spaced or
\* omitted (a message cut at the maximum length aside).
C19_NormalizedCategorySubject ==
    (Derived /\ CategoryThenSubject(Cleaned, toLowerCase(Cleaned))) =>
        /\ derivedMessage # Undefined
        /\ Len(derivedMessage) < maxLength =>
              CategoryColonSubject(derivedMessage, toLowerCase(derivedMessage))

\* The minimum meaningful length of a fallback clause
MinClauseLength == 5

\* C20: when the reasoning text holds no category-prefix match,
\* deriveMessageFromReasoning falls back to the first sentence-like clause of
\* the text and returns no candidate whenever that clause is shorter than 5
\* characters.
C20_ShortClauseDiscarded ==
    (Derived /\ matchConventional(Cleaned) = Undefined) =>
        IF Len(firstClause(Cleaned)) < MinClauseLength
        THEN derivedMessage = Undefined
        ELSE derivedMessage = deriveFormat(firstClause(Cleaned), maxLength)

(***************************************************************************)
(* sanitizeMessage and the cut at maxLength applied to bounded raw texts   *)
(***************************************************************************)
\* A message of 120 characters whose first sentence ends at position 40
LongMessage ==
    "feat: add a parser for the config files. It reads the settings from disk"
        \o " and checks each key against the schema at once!"

MessageLeads == {"", " ", "\"", "'"}
MessageBodies == {"fix: a", "fix a bug", "a\nb", "refactoring_of_all", LongMessage}
MessageTrails == {"", ".", "..", "\"", " \r\n"}

RawMessages ==
    {l \o b \o t : l \in MessageLeads, b \in MessageBodies, t \in MessageTrails}
        \cup {" ", ".", " \n"}

InitSanitize ==
    /\ IdlePart /\ IdleGroup /\ IdleChat /\ IdleCli /\ SynthIdleButMaxLength
    /\ path = "" /\ pathMeta = <<>> /\ reasoningText = "" /\ derivedMessage = ""
    /\ choiceList = <<>> /\ candidates = <<>>
    /\ fpc = "input"
    /\ maxLength \in SynthMaxLengths
    /\ rawMessage \in RawMessages
    /\ sanitizedMessage = "" /\ cutMessage = ""
    /\ fileStats = <<>> /\ maxFiles = 0 /\ summaryText = ""

\* candidate = sanitizeMessage(candidate); if (!candidate) return null;
\* if (candidate.length > maxLength) candidate = candidate.slice(0, maxLength)
SanitizeAndCut ==
    /\ fpc = "input"
    /\ rawMessage # ""
    /\ sanitizedMessage' = sanitizeMessage(rawMessage)
    /\ cutMessage' = deriveCut(sanitizeMessage(rawMessage), maxLength)
    /\ fpc' = "done"
    /\ UNCHANGED <<rawMessage, fileStats, maxFiles, summaryText, path, pathMeta,
                   reasoningText, derivedMessage, choiceList, candidates,
                   varsPart, varsGroup, varsChat, varsSynth, varsCli>>

NextSanitize == SanitizeAndCut

SpecSanitize == InitSanitize /\ [][NextSanitize]_vars

(***************************************************************************)
(* Claims about the post-processing of a message                           *)
(***************************************************************************)
Sanitized == fpc = "done" /\ rawMessage # ""

\* C21: post-processing is idempotent: sanitizing and enforcing the length
\* on an already sanitized and length-enforced text returns that text
\* unchanged, for every raw text and every length ceiling.
C21_PostProcessingIdempotent ==
    (Sanitized /\ cutMessage # Undefined) =>
        deriveCut(sanitizeMessage(cutMessage), maxLength) = cutMessage

QuoteChars == {"\"", "'"}

WrappedInQuotes(s) ==
    Len(s) >= 2 /\ charAt(s, 1) \in QuoteChars /\ charAt(s, Len(s)) \in QuoteChars

EndsInWordPeriod(s) ==
    Len(s) >= 2 /\ charAt(s, Len(s)) = "." /\ charAt(s, Len(s) - 1) \in WordChars

\* The raw text without its surrounding whitespace, its line breaks and its
\* wrapping quotes
RECURSIVE Unwrapped(_)
Unwrapped(s) ==
    IF WrappedInQuotes(s) THEN Unwrapped(trim(SubSeq(s, 2, Len(s) - 1))) ELSE s

\* C22: sanitizeMessage returns a text with no leading or trailing
\* whitespace, no newline or carriage return, no wrapping quote characters,
\* and with one trailing period removed exactly when that period is preceded
\* by a word character.
C22_SanitizedForm ==
    Sanitized =>
        /\ trim(sanitizedMessage) = sanitizedMessage
        /\ \A i \in 1..Len(sanitizedMessage) : charAt(sanitizedMessage, i) \notin {"\n", "\r"}
        /\ ~WrappedInQuotes(sanitizedMessage)
        /\ \E core \in {Unwrapped(removeLineBreaks(trim(rawMessage)))} :
              sanitizedMessage = IF EndsInWordPeriod(core)
                                 THEN SubSeq(core, 1, Len(core) - 1)
                                 ELSE core

SentenceEnds == {".", "!", "?"}
ClauseEnds == {",", ";", ":"}

\* The last position up to limit that holds a character of the class, or 0
LastBoundary(s, limit, Class) ==
    IF \E p \in 1..Min(limit, Len(s)) : charAt(s, p) \in Class
    THEN CHOOSE p \in 1..Min(limit, Len(s)) :
            /\ charAt(s, p) \in Class
            /\ \A q \in (p + 1)..Min(limit, Len(s)) : charAt(s, q) \notin Class
    ELSE 0

OverCeiling == Len(sanitizedMessage) > maxLength + LengthTolerance

\* The character that stands for the ellipsis
Ellipsis == "..."

\* C23: a candidate that exceeds the length ceiling by more than the
\* tolerance is cut at a boundary: at the last sentence-ending punctuation
\* within the ceiling when there is one, the result ending at that
\* punctuation; and when the text has no sentence, clause or word boundary
\* within the ceiling, by a hard character cut that appends an ellipsis.
C23_CutAtBoundary ==
    (Sanitized /\ OverCeiling) =>
        /\ LastBoundary(sanitizedMessage, maxLength, SentenceEnds) > 0 =>
              cutMessage = SubSeq(sanitizedMessage, 1,
                                  LastBoundary(sanitizedMessage, maxLength, SentenceEnds))
        /\ LastBoundary(sanitizedMessage, maxLength,
                        SentenceEnds \cup ClauseEnds \cup Whitespace) = 0 =>
              endsWith(cutMessage, Ellipsis)

(***************************************************************************)
(* The compact summary: buildCompactSummary, src/utils/git.ts              *)
(***************************************************************************)
\* [...fileStats].sort((a, b) => b.changes - a.changes): a stable sort, one
\* insertion after the entries that have at least as many changes
InsertAfter(sorted, k, f) ==
    SubSeq(sorted, 1, k) \o <<f>> \o SubSeq(sorted, k + 1, Len(sorted))

\* A sort that is ascending by changes
InsertByChangesAscending(sorted, f) ==
    InsertAfter(sorted, Cardinality({i \in 1..Len(sorted) : sorted[i].changes <= f.changes}), f)

InsertByChanges(sorted, f) ==
    InsertAfter(sorted, Cardinality({i \in 1..Len(sorted) : sorted[i].changes >= f.changes}), f)

RECURSIVE SortByChanges(_, _)
SortByChanges(sorted, rest) ==
    IF rest = <<>> THEN sorted
    ELSE SortByChanges(InsertByChanges(sorted, Head(rest)), Tail(rest))

RECURSIVE SumOf(_, _)
SumOf(stats, field) ==
    IF stats = <<>> THEN 0 ELSE stats[1][field] + SumOf(Tail(stats), field)

\* `- ${f.file} (+${f.additions} / -${f.deletions}, ${f.changes} changes)`
FileLine(f) ==
    "- " \o f.file \o " (+" \o ToString(f.additions) \o " / -" \o ToString(f.deletions)
        \o ", " \o ToString(f.changes) \o " changes)"

FileLines(top) == [i \in 1..Len(top) |-> FileLine(top[i])]

\* `…and ${sorted.length - top.length} more files`
MoreLine(k) == Ellipsis \o "and " \o ToString(k) \o " more files"

SummaryHead(stats) ==
    <<"Files changed: " \o ToString(Len(stats)),
      "Additions: " \o ToString(SumOf(stats, "additions")) \o ", Deletions: "
          \o ToString(SumOf(stats, "deletions")) \o ", Total changes: "
          \o ToString(SumOf(stats, "changes")),
      "Top files by changes:">>

SummaryLines(stats, sorted, top) ==
    SummaryHead(stats) \o FileLines(top)
        \o (IF Len(sorted) > Len(top) THEN <<MoreLine(Len(sorted) - Len(top))>> ELSE <<>>)

SummaryOfSorted(stats, sorted, limit) ==
    join(SummaryLines(stats, sorted, SubSeq(sorted, 1, Min(Len(sorted), Max(1, limit)))), "\n")

\* Returns Undefined where the code returns null: getDiffSummary is null when
\* git names no file
buildCompactSummary(stats, limit) ==
    IF stats = <<>> THEN Undefined
    ELSE SummaryOfSorted(stats, SortByChanges(<<>>, stats), limit)

\* The paths git names, in its order, and the counts of one file
StatPaths == <<"a.ts", "b.ts", "c.md", "d.ts">>
StatCounts == {[additions |-> 0, deletions |-> 0], [additions |-> 1, deletions |-> 0],
               [additions |-> 1, deletions |-> 1], [additions |-> 12, deletions |-> 0]}

StatOf(file, c) ==
    [file |-> file, additions |-> c.additions, deletions |-> c.deletions,
     changes |-> c.additions + c.deletions]

\* The first n paths, each with its counts
StatLists ==
    UNION {{[i \in 1..n |-> StatOf(StatPaths[i], cs[i])] : cs \in [1..n -> StatCounts]} :
              n \in 0..MaxStatFiles}

InitSummary ==
    /\ IdlePart /\ IdleGroup /\ IdleChat /\ IdleSynth /\ IdleCli
    /\ path = "" /\ pathMeta = <<>> /\ reasoningText = "" /\ derivedMessage = ""
    /\ choiceList = <<>> /\ candidates = <<>>
    /\ fpc = "input"
    /\ rawMessage = "" /\ sanitizedMessage = "" /\ cutMessage = ""
    /\ fileStats \in StatLists
    /\ maxFiles \in 0..MaxFilesShown
    /\ summaryText = ""

CallBuildCompactSummary ==
    /\ fpc = "input"
    /\ maxFiles <= MaxFilesShown
    /\ summaryText' = buildCompactSummary(fileStats, maxFiles)
    /\ fpc' = "done"
    /\ UNCHANGED <<fileStats, maxFiles, rawMessage, sanitizedMessage, cutMessage,
                   path, pathMeta, reasoningText, derivedMessage, choiceList,
                   candidates, varsPart, varsGroup, varsChat, varsSynth, varsCli>>

NextSummary == CallBuildCompactSummary

SpecSummary == InitSummary /\ [][NextSummary]_vars

(***************************************************************************)
(* Claims about buildCompactSummary                                        *)
(***************************************************************************)
Summarised == fpc = "done" /\ summaryText # "" /\ summaryText # Undefined

\* The per-file lines of a summary
ShownLines(ls) == SelectSeq(ls, LAMBDA l : startsWith(l, "- "))

\* The orders of the statistics that are descending by changes
DescendingOrders(stats) ==
    {p \in Permutations(1..Len(stats)) :
        \A i, j \in 1..Len(stats) : i < j => stats[p[i]].changes >= stats[p[j]].changes}

\* The lines list the first count files of a descending order of the
\* statistics, and end with the line of the K files left out exactly when
\* some are left out
ShowsTop(ls, stats, count) ==
    /\ Len(ShownLines(ls)) = count
    /\ \E p \in DescendingOrders(stats) :
          \A i \in 1..count : ShownLines(ls)[i] = FileLine(stats[p[i]])
    /\ (\E k \in 0..Len(stats) : ls[Len(ls)] = MoreLine(k)) <=> Len(stats) > count
    /\ Len(stats) > count => ls[Len(ls)] = MoreLine(Len(stats) - count)

\* C25: the compact summary lists the files in descending order of changes,
\* emits min(n, maxFilesShown) per-file lines, and ends with an
\* '...and K more files' line exactly when n > maxFilesShown, K being n minus
\* the number of per-file lines shown.
C25_ShowsUpToMaxFiles ==
    Summarised =>
        ShowsTop(split(summaryText, "\n"), fileStats, Min(Len(fileStats), maxFiles))

\* C25 as amended: the number of per-file lines is min(n, max(1, maxFilesShown))
C25_ShowsAtLeastOneFile ==
    /\ Summarised =>
          ShowsTop(split(summaryText, "\n"), fileStats,
                   Min(Len(fileStats), Max(1, maxFiles)))
    /\ (fpc = "done" /\ fileStats = <<>>) => summaryText = Undefined

\* Three files, the one with the most changes named last by git, two shown
C25_Witness ==
    /\ Summarised
    /\ Len(fileStats) = 3
    /\ maxFiles = 2
    /\ fileStats[3].changes > fileStats[1].changes
    /\ fileStats[1].changes > fileStats[2].changes
    /\ Len(ShownLines(split(summaryText, "\n"))) = 2
    /\ endsWith(summaryText, MoreLine(1))

(***************************************************************************)
(* The commit command (multi-commit version) and the repository it acts on *)
(***************************************************************************)
Range(seq) == {seq[i] : i \in 1..Len(seq)}

\* The paths of the repository, in the order git prints them
CliPaths ==
    <<".github/workflows/ci.yml", "README.md", "app/api/p/a.ts", "app/api/u/a.ts",
      "package-lock.json", "src/x.ts", "src/y.ts">>

CliFiles == {CliPaths[i] : i \in 1..Min(MaxCliFiles, Len(CliPaths))}

\* The default pathspecs of filesToExclude
ExcludedNames == {"package-lock.json", ".DS_Store", "Thumbs.db"}
ExcludedDirs ==
    {"node_modules/", "dist/", "build/", ".next/", "coverage/", ".nyc_output/"}
ExcludedSuffixes ==
    {".log", ".tmp", ".temp", ".cache", ".min.js", ".min.css", ".bundle.js",
     ".bundle.css", ".lock"}

IsExcluded(f) ==
    \/ f \in ExcludedNames
    \/ \E d \in ExcludedDirs : startsWith(f, d)
    \/ \E x \in ExcludedSuffixes : endsWith(f, x)

\* getStagedDiff: the staged files that are not excluded, <<>> for undefined
getStagedDiff(staged) ==
    LET Listed(f) == f \in staged /\ ~IsExcluded(f) IN
    SelectSeq(CliPaths, Listed)

\* git add --update: every tracked file changed in the work tree is staged
gitAddUpdate(staged, changed) == staged \cup changed

\* Variant: git reset HEAD -- leaves the staged set as it is
gitResetKeepsIndex(staged) == staged

\* git reset HEAD --: nothing is staged any more
gitReset(staged) == {}

\* git add ...group.files
gitAdd(staged, fs) == staged \cup Range(fs)

\* git commit -m message: the commit takes what is staged
gitCommit(staged, msg) == [files |-> staged, message |-> msg]

ManyFilesThreshold == 5

\* The results of generateCommitMessageFromSummary for n candidates
SummaryMessages == <<"feat: a", "fix: b">>

SummaryOutcomes(n) ==
    {[outcome |-> "returned", result |-> SubSeq(SummaryMessages, 1, k)] :
        k \in 0..Min(n, Len(SummaryMessages))}
    \cup {[outcome |-> "thrown", result |-> <<>>]}

\* `${group.type}${scopePart}: ${group.title}`
fallbackMessage(group) ==
    LET scopePart == IF Falsy(group.scope) THEN "" ELSE "(" \o group.scope \o ")" IN
    group.type \o scopePart \o ": " \o group.title

\* The body of the loop that gives every group its message
groupMessage(group, r) ==
    IF r.outcome = "returned" /\ Len(r.result) > 0 THEN r.result[1]
    ELSE fallbackMessage(group)

WithMessage(g, m) ==
    [type |-> g.type, scope |-> g.scope, title |-> g.title, files |-> g.files,
     message |-> m]

\* The groups of the multi-commit workflow, <<>> when it is not entered
planGroups(staged) ==
    LET isManyFiles == Len(staged) >= ManyFilesThreshold
        shouldUseGrouping == largeChange \/ isManyFiles
        gs == deepSplit(groupFiles(staged))
    IN  IF splitCommits \/ shouldUseGrouping
        THEN [i \in 1..Len(gs) |-> WithMessage(gs[i], Undefined)]
        ELSE <<>>

InitCli ==
    /\ IdlePart /\ IdleGroup /\ IdleChat /\ IdleSynth /\ IdlePure /\ IdlePost
    /\ stageAll \in BOOLEAN
    /\ splitCommits \in BOOLEAN
    /\ largeChange \in BOOLEAN
    /\ index \in SUBSET CliFiles
    /\ worktree \in {{}, CliFiles \ index}
    /\ startIndex = index
    /\ history = <<>>
    /\ groupIndex = 0
    /\ confirmed = FALSE
    /\ cliMessages = <<>>
    /\ cliMessage = ""
    /\ cpc = "start"
    /\ cliError = ""

CliFrame == <<gpc, varsPart, varsChat, varsSynth, varsPure, varsPost>>

\* if (stageAll) git add --update
StageAll ==
    /\ cpc = "start"
    /\ IF stageAll
       THEN index' = gitAddUpdate(index, worktree) /\ worktree' = {}
       ELSE UNCHANGED <<index, worktree>>
    /\ cpc' = "detect"
    /\ UNCHANGED <<stageAll, splitCommits, largeChange, startIndex, history, groupIndex,
                   confirmed, cliMessages, cliMessage, cliError, files, groups, CliFrame>>

\* getStagedDiff, the test of the thresholds, groupFiles and the deep split
DetectStaged ==
    /\ cpc = "detect"
    /\ LET staged == getStagedDiff(index) IN
       IF staged = <<>>
       THEN /\ cpc' = "failed"
            /\ cliError' = "No staged changes found"
            /\ UNCHANGED <<files, groups, groupIndex>>
       ELSE /\ files' = staged
            /\ groups' = planGroups(staged)
            /\ groupIndex' = 1
            /\ cpc' = IF Len(groups') > 1 THEN "generate" ELSE "single"
            /\ cliError' = cliError
    /\ UNCHANGED <<stageAll, splitCommits, largeChange, worktree, index, startIndex,
                   history, confirmed, cliMessages, cliMessage, CliFrame>>

\* One turn of the loop that generates the message of groups[groupIndex]
GenerateGroupMessage ==
    /\ cpc = "generate"
    /\ \E r \in SummaryOutcomes(1) :
        groups' = [groups EXCEPT ![groupIndex].message = groupMessage(groups[groupIndex], r)]
    /\ IF groupIndex < Len(groups)
       THEN groupIndex' = groupIndex + 1 /\ cpc' = "generate"
       ELSE groupIndex' = 1 /\ cpc' = "confirm"
    /\ UNCHANGED <<stageAll, splitCommits, largeChange, worktree, index, startIndex,
                   history, confirmed, cliMessages, cliMessage, cliError, files, CliFrame>>

\* "Proceed with n commits?"
ConfirmPlan ==
    /\ cpc = "confirm"
    /\ \E answer \in {"yes", "no", "cancel"} :
        /\ confirmed' = (answer = "yes")
        /\ cpc' = IF answer = "yes" THEN "reset" ELSE "cancelled"
    /\ UNCHANGED <<stageAll, splitCommits, largeChange, worktree, index, startIndex,
                   history, groupIndex, cliMessages, cliMessage, cliError, files, groups,
                   CliFrame>>

GitFails(command) ==
    /\ cpc' = "failed"
    /\ cliError' = "Command failed: git " \o command
    /\ UNCHANGED <<worktree, index, history, groupIndex>>

\* git reset HEAD -- for groups[groupIndex]
GitReset ==
    /\ cpc = "reset"
    /\ \E ok \in BOOLEAN :
        IF ok
        THEN /\ index' = gitReset(index)
             /\ worktree' = worktree \cup index
             /\ cpc' = "add"
             /\ UNCHANGED <<history, groupIndex, cliError>>
        ELSE GitFails("reset")
    /\ UNCHANGED <<stageAll, splitCommits, largeChange, startIndex, confirmed,
                   cliMessages, cliMessage, files, groups, CliFrame>>

\* git add ...group.files for groups[groupIndex]
GitAdd ==
    /\ cpc = "add"
    /\ \E ok \in BOOLEAN :
        IF ok
        THEN /\ index' = gitAdd(index, groups[groupIndex].files)
             /\ worktree' = worktree \ Range(groups[groupIndex].files)
             /\ cpc' = "commit"
             /\ UNCHANGED <<history, groupIndex, cliError>>
        ELSE GitFails("add")
    /\ UNCHANGED <<stageAll, splitCommits, largeChange, startIndex, confirmed,
                   cliMessages, cliMessage, files, groups, CliFrame>>

\* git commit -m group.message for groups[groupIndex]
GitCommit ==
    /\ cpc = "commit"
    /\ \E ok \in BOOLEAN :
        IF ok
        THEN /\ history' = Append(history, gitCommit(index, groups[groupIndex].message))
             /\ index' = {}
             /\ groupIndex' = groupIndex + 1
             /\ cpc' = IF groupIndex < Len(groups) THEN "reset" ELSE "done"
             /\ UNCHANGED <<worktree, cliError>>
        ELSE GitFails("commit")
    /\ UNCHANGED <<stageAll, splitCommits, largeChange, startIndex, confirmed,
                   cliMessages, cliMessage, files, groups, CliFrame>>

\* The single commit workflow: the candidates for the whole change
GenerateSingle ==
    /\ cpc = "single"
    /\ \E r \in SummaryOutcomes(Len(SummaryMessages)) :
        IF r.outcome = "thrown"
        THEN /\ cpc' = "failed"
             /\ cliError' = "Error connecting to host"
             /\ cliMessages' = cliMessages
        ELSE IF Len(r.result) = 0
        THEN /\ cpc' = "failed"
             /\ cliError' = "No commit messages were generated. Try again."
             /\ cliMessages' = cliMessages
        ELSE /\ cpc' = "choose"
             /\ cliMessages' = r.result
             /\ cliError' = cliError
    /\ UNCHANGED <<stageAll, splitCommits, largeChange, worktree, index, startIndex,
                   history, groupIndex, confirmed, cliMessage, files, groups, CliFrame>>

\* "Use this commit message?" for one candidate, the selection for several;
\* pick = 0 is a refusal or a cancellation
ChooseMessage ==
    /\ cpc = "choose"
    /\ \E pick \in 0..Len(cliMessages) :
        IF pick = 0
        THEN cpc' = "cancelled" /\ cliMessage' = cliMessage
        ELSE cpc' = "commitSingle" /\ cliMessage' = cliMessages[pick]
    /\ UNCHANGED <<stageAll, splitCommits, largeChange, worktree, index, startIndex,
                   history, groupIndex, confirmed, cliMessages, cliError, files, groups,
                   CliFrame>>

\* git commit -m message
GitCommitSingle ==
    /\ cpc = "commitSingle"
    /\ \E ok \in BOOLEAN :
        IF ok
        THEN /\ history' = Append(history, gitCommit(index, cliMessage))
             /\ index' = {}
             /\ cpc' = "done"
             /\ UNCHANGED <<worktree, groupIndex, cliError>>
        ELSE GitFails("commit")
    /\ UNCHANGED <<stageAll, splitCommits, largeChange, startIndex, confirmed,
                   cliMessages, cliMessage, files, groups, CliFrame>>

NextCli ==
    \/ StageAll
    \/ DetectStaged
    \/ GenerateGroupMessage
    \/ ConfirmPlan
    \/ GitReset
    \/ GitAdd
    \/ GitCommit
    \/ GenerateSingle
    \/ ChooseMessage
    \/ GitCommitSingle

SpecCli == InitCli /\ [][NextCli]_vars

(***************************************************************************)
(* The commit command of src/commands/lazycommit.ts: the grouping flow is  *)
(* disabled, and the message is reviewed, edited and confirmed             *)
(***************************************************************************)
\* What the user may type at "Edit commit message:"; validate refuses a
\* text that is empty once trimmed
EditedTexts == {" fix: edited ", "docs: edited"}

\* getStagedDiff; "Grouping flow disabled": every run with staged changes
\* goes on to the single commit workflow
DetectSingle ==
    /\ cpc = "detect"
    /\ IF getStagedDiff(index) = <<>>
       THEN /\ cpc' = "failed"
            /\ cliError' = "No staged changes found"
            /\ UNCHANGED files
       ELSE /\ files' = getStagedDiff(index)
            /\ cpc' = "single"
            /\ cliError' = cliError
    /\ UNCHANGED <<stageAll, splitCommits, largeChange, worktree, index, startIndex,
                   history, groupIndex, confirmed, cliMessages, cliMessage, groups,
                   CliFrame>>

\* One candidate: "Review generated commit message" with Use as-is, Edit and
\* Cancel; several: "Pick a commit message to use".  editedAlready is true on
\* every path that goes on, so the offer to edit that follows is never made.
ReviewOrSelect ==
    /\ cpc = "choose"
    /\ IF Len(cliMessages) = 1
       THEN \E choice \in {"use", "edit", "cancel"} :
               /\ cpc' = CASE choice = "use" -> "proceed"
                           [] choice = "edit" -> "edit"
                           [] OTHER -> "cancelled"
               /\ cliMessage' = cliMessages[1]
       ELSE \E pick \in 0..Len(cliMessages) :
               IF pick = 0
               THEN cpc' = "cancelled" /\ cliMessage' = cliMessage
               ELSE cpc' = "proceed" /\ cliMessage' = cliMessages[pick]
    /\ UNCHANGED <<stageAll, splitCommits, largeChange, worktree, index, startIndex,
                   history, groupIndex, confirmed, cliMessages, cliError, files, groups,
                   CliFrame>>

\* "Edit commit message:": a cancellation, or message = String(edited).trim()
EditMessage ==
    /\ cpc = "edit"
    /\ \/ cpc' = "cancelled" /\ cliMessage' = cliMessage
       \/ \E edited \in EditedTexts : cpc' = "proceed" /\ cliMessage' = trim(edited)
    /\ UNCHANGED <<stageAll, splitCommits, largeChange, worktree, index, startIndex,
                   history, groupIndex, confirmed, cliMessages, cliError, files, groups,
                   CliFrame>>

\* A final prompt that goes on to the commit whatever the answer
ProceedWhateverAnswer ==
    /\ cpc = "proceed"
    /\ \E answer \in {"yes", "no", "cancel"} :
        /\ confirmed' = (answer = "yes")
        /\ cpc' = "commitSingle"
    /\ UNCHANGED <<stageAll, splitCommits, largeChange, worktree, index, startIndex,
                   history, groupIndex, cliMessages, cliMessage, cliError, files, groups,
                   CliFrame>>

\* "Proceed with this commit message?"
ProceedPrompt ==
    /\ cpc = "proceed"
    /\ \E answer \in {"yes", "no", "cancel"} :
        /\ confirmed' = (answer = "yes")
        /\ cpc' = IF answer = "yes" THEN "commitSingle" ELSE "cancelled"
    /\ UNCHANGED <<stageAll, splitCommits, largeChange, worktree, index, startIndex,
                   history, groupIndex, cliMessages, cliMessage, cliError, files, groups,
                   CliFrame>>

NextSingle ==
    \/ StageAll
    \/ DetectSingle
    \/ GenerateSingle
    \/ ReviewOrSelect
    \/ EditMessage
    \/ ProceedPrompt
    \/ GitCommitSingle

SpecSingle == InitCli /\ [][NextSingle]_vars

(***************************************************************************)
(* Claims about the commit command                                         *)
(***************************************************************************)
\* The positions at which no message has been finalized yet
BeforeMessages == {"start", "detect", "generate", "confirm", "single", "choose"}

RepositoryAsAtStart == index = startIndex /\ history = <<>>

\* C8: no git add, git reset or git commit is executed before the commit
\* messages are finalized, and a run that ends in an error or is cancelled
\* leaves the staged set and the commit history as they were at its start,
\* also when the commit of a later group fails.
C8_NoPartialCommitState ==
    /\ cpc \in BeforeMessages => RepositoryAsAtStart
    /\ cpc \in {"failed", "cancelled"} => RepositoryAsAtStart

InCommitLoop == cpc \in {"reset", "add", "commit"}

MultiPositions == {"generate", "confirm", "reset", "add", "commit"}

\* The staged files were detected and the workflow was chosen
FlowChosen == files # <<>> /\ cpc \notin {"idle", "start", "detect"}

\* The run is in, or ended in, the multi-commit workflow
InMultiFlow ==
    /\ Len(groups) > 1
    /\ cpc \in MultiPositions \/ groups[1].message # Undefined

CliEnded == cpc \in {"done", "cancelled", "failed"}

\* The number of groups that grouping and the deep split make of the staged
\* files
GroupCounts ==
    {<<staged, Len(deepSplit(groupFiles(getStagedDiff(staged))))>> :
        staged \in SUBSET CliFiles}

GroupCountOf(fs) == (CHOOSE p \in GroupCounts : p[1] = Range(fs))[2]

\* The split flag is set or the change set is detected as large, and the
\* grouping with its deep split yields two groups or more
GroupingApplies ==
    /\ splitCommits \/ largeChange \/ Len(files) >= ManyFilesThreshold
    /\ GroupCountOf(files) >= 2

\* C26: the multi-commit flow runs exactly when the split flag is set or the
\* change set is detected as large, and grouping after the deep split yields
\* at least 2 groups; in every other case the run goes through the
\* single-commit flow, which makes one commit.
C26_MultiFlowOrOneCommit ==
    FlowChosen =>
        /\ InMultiFlow <=> GroupingApplies
        /\ ~InMultiFlow => Len(history) <= 1
        /\ (cpc = "done" /\ ~InMultiFlow) => Len(history) = 1

\* C27: after a confirmed multi-group run completes without error, every file
\* that was staged when the run started has been committed in exactly one of
\* the created commits, the files hidden from the analysis included.
C27_EveryStagedFileCommitted ==
    (confirmed /\ cpc = "done") =>
        \A f \in startIndex :
            Cardinality({j \in 1..Len(history) : f \in history[j].files}) = 1

=============================================================================
